---- MODULE Spec2Model ----
(***************************************************************************)
(* A model of mle.configuration.Configuration: a key/value store whose     *)
(* mapping view is the merge of its own variables over a defaults mapping  *)
(* (a plain dict or another Configuration), with per-key change callbacks, *)
(* deferred callback batches, propagation to child configurations, saving  *)
(* to and loading from a backing JSON file, the saved() context manager    *)
(* and the Autoloader that reloads the file when it is modified.           *)
(*                                                                         *)
(* A mapping is a function from Keys to values; NOT_SET as the value of a  *)
(* key says that the key is not in the mapping.  Python's exceptions are   *)
(* the X component of the machine record the operators thread through.     *)
(***************************************************************************)
EXTENDS Integers, Sequences, FiniteSets, TLC

\* ----------------------------------------------------------------- domains
\* the stores, the keys and the values the model draws from; a store takes a
\* Configuration as its defaults only from the stores of a lower number
Stores == {1, 2, 3}
Keys == {1, 2}
Values == {1, 2}
Obs == {"f", "g"}

\* a callback whose body raises an exception
Raisers == {"h"}

\* how deep callbacks_deferred() blocks nest, and how long a list of child
\* configurations grows
MaxDepth == 2
MaxChildren == 2

\* how many modify events of a backing file wait to be delivered
MaxEvents == 2

\* how deep saved() blocks of one store nest
MaxSaved == 2

\* how deep the calls of one thread into the stores nest: a call, and the
\* calls that the callbacks it runs make
MaxNest == 2

\* how many backup files the watcher of a store writes
MaxBackups == 1

\* how many calls into the stores are made from inside one call
MaxInner == 1

\* configuration.NOT_SET; as the value of a key in a mapping it says that the
\* key is not in the mapping
NOT_SET == 0

Val0 == Values \cup {NOT_SET}
Maps == [Keys -> Val0]
EmptyMap == [k \in Keys |-> NOT_SET]
KeysOf(map) == {k \in Keys : map[k] # NOT_SET}
MapsOver(KK) == {map \in Maps : KeysOf(map) \subseteq KK}

\* what a raised KeyError looks like where a value was expected
KeyErr == -1

\* ------------------------------------------------------------ backing file
\* The file at a store's filepath: a JSON text, a text that is not JSON, or
\* no file.  The text json.dump(variables, sort_keys=True) writes is the
\* sequence of the <<key, value>> pairs of the dict in the order of the keys.
JsonFile(text) == [state |-> "json", text |-> text]
MalformedFile == [state |-> "malformed", text |-> <<>>]
MissingFile == [state |-> "missing", text |-> <<>>]

RECURSIVE SortedKeys(_)
SortedKeys(S) ==
    IF S = {} THEN <<>>
    ELSE LET least == CHOOSE x \in S : \A y \in S : x <= y IN
         <<least>> \o SortedKeys(S \ {least})

\* json.dump(map, file, indent=4, sort_keys=True)
JsonDump(map) ==
    LET keys == SortedKeys(KeysOf(map)) IN
    [i \in 1..Len(keys) |-> <<keys[i], map[keys[i]]>>]

\* json.load(file) of a text that is a JSON object
JsonLoad(text) ==
    [k \in Keys |->
        IF \E i \in 1..Len(text) : text[i][1] = k
        THEN text[CHOOSE i \in 1..Len(text) : text[i][1] = k][2]
        ELSE NOT_SET]

\* ------------------------------------------------------------------ paths
\* The names a store's backing file may have in its directory; a path is a
\* str, as watchdog reports it in an event, or a pathlib.Path, as the store
\* keeps it.  A str and a Path never compare equal.
Names == <<"a.json", "b.json">>
Str(name) == [type |-> "str", name |-> name]
Path(name) == [type |-> "Path", name |-> name]

VARIABLES
    variables,          \* _variables of each store
    defaults,           \* _defaults of each store: a plain dict or a Configuration
    child_configs,      \* _child_configs of each store, a list
    change_callbacks,   \* _change_callbacks of each store: key -> CallbackSet
    alive,              \* the callbacks whose owner has not been destroyed
    callbacks_enabled,  \* _change_callbacks_enabled
    defer_callbacks,    \* _defer_callbacks
    deferred,           \* _deferred_callbacks of each store
    scopes,             \* the open callbacks_deferred() contexts of each store:
                        \* the local already_deferring of each, innermost last
    entered,            \* history: the value each key had in a store, and the
                        \* callbacks it had, when the store's outermost open
                        \* callbacks_deferred() block was entered
    autosave,           \* _autosave
    save_scopes,        \* the open saved() contexts of each store: the policy
                        \* and the _was_autosave of each, innermost last
    is_loaded,          \* _is_loaded
    autoload,           \* _autoload
    autoloader,         \* whether _autoloader is an Autoloader (not None)
    watching,           \* whether the Autoloader has its watch scheduled
    ignore_count,       \* Autoloader._ignore_count
    events,             \* the modify events of the file not yet delivered to
                        \* on_modified, oldest first, each tagged with its
                        \* cause: "self" for a save(), "external" otherwise
    file,               \* the backing file of each store: the file at its filepath
    moves,              \* the move events of the file not yet delivered to
                        \* on_moved, oldest first
    filepath,           \* _filepath of each store, a pathlib.Path
    elsewhere,          \* the file at the other path of each store's directory
    clear_on_error,     \* Autoloader.clear_on_error
    backup_on_error,    \* Autoloader.backup_on_error
    backups,            \* the backup files next to the backing file, oldest first
    autoload_scopes,    \* the open autoload_disabled() contexts of each store:
                        \* the local was_autoload of each, innermost last
    disabled_scopes,    \* the open callbacks_disabled() contexts of each store:
                        \* the local was_enabled of each, innermost last
    last,               \* the operation the last step performed, and its arguments
    log,                \* the callback invocations of the last step, in order
    result,             \* the exception the last step raised, or "none"
    warned,             \* the warnings the last step issued
    saved,              \* how many times the last step called save()
    writes,             \* the value of _autosave at each save() of the last step
    locks,              \* the re-entrant locks that synchronized creates: one
                        \* on each store and one on each wrapped function that
                        \* is called without an instance
    stacks,             \* the calls each thread is inside, outermost first
    pending             \* the call each thread is waiting to enter, if any

vars == <<variables, defaults, child_configs, change_callbacks, alive, callbacks_enabled,
          defer_callbacks, deferred, scopes, entered, autosave, save_scopes, is_loaded,
          autoload, autoloader, watching, ignore_count, events, moves, file, filepath,
          elsewhere, clear_on_error, backup_on_error, backups, autoload_scopes,
          disabled_scopes, last, log, result, warned, saved, writes, locks, stacks,
          pending>>

\* ---------------------------------------------------------------- defaults
PlainDict(map) == [kind |-> "dict", map |-> map]
ConfigRef(p) == [kind |-> "config", ref |-> p]
IsConfig(d) == d.kind = "config"

\* ------------------------------------------------------- mapping interface
RECURSIVE GetItem(_, _, _, _)
RECURSIVE Contains(_, _, _, _)
RECURSIVE Length(_, _, _)
RECURSIVE KeySet(_, _, _)

\* self._defaults[key]
DefaultsGetItem(V, D, s, k) ==
    IF IsConfig(D[s]) THEN GetItem(V, D, D[s].ref, k)
    ELSE IF D[s].map[k] # NOT_SET THEN D[s].map[k] ELSE KeyErr

GetItemPreferDefaults(V, D, s, k) ==
    LET d == DefaultsGetItem(V, D, s, k) IN
    IF d # KeyErr THEN d
    ELSE IF V[s][k] # NOT_SET THEN V[s][k] ELSE KeyErr

\* Configuration.__getitem__
GetItem(V, D, s, k) ==
    LET d == DefaultsGetItem(V, D, s, k) IN
    IF d # KeyErr
    THEN (IF V[s][k] # NOT_SET THEN V[s][k] ELSE d)
    ELSE IF V[s][k] # NOT_SET THEN V[s][k] ELSE KeyErr

\* bool(self._defaults): a dict is true when not empty, a Configuration
\* (a Mapping without __bool__) when its __len__ is not 0
DefaultsTruthy(V, D, s) ==
    IF IsConfig(D[s]) THEN Length(V, D, D[s].ref) # 0
    ELSE KeysOf(D[s].map) # {}

\* key in self._defaults
InDefaults(V, D, s, k) ==
    IF IsConfig(D[s]) THEN Contains(V, D, D[s].ref, k)
    ELSE D[s].map[k] # NOT_SET

\* Configuration.__contains__
Contains(V, D, s, k) ==
    IF DefaultsTruthy(V, D, s)
    THEN V[s][k] # NOT_SET \/ InDefaults(V, D, s, k)
    ELSE V[s][k] # NOT_SET

\* set(self._defaults), the keys that {**self._defaults} unpacks
DefaultsKeys(V, D, s) ==
    IF IsConfig(D[s]) THEN KeySet(V, D, D[s].ref)
    ELSE KeysOf(D[s].map)

\* Configuration.keys / __iter__
KeySet(V, D, s) ==
    IF DefaultsTruthy(V, D, s)
    THEN DefaultsKeys(V, D, s) \cup KeysOf(V[s])
    ELSE KeysOf(V[s])

\* Configuration.__len__
Length(V, D, s) ==
    IF DefaultsTruthy(V, D, s)
    THEN Cardinality(DefaultsKeys(V, D, s) \cup KeysOf(V[s]))
    ELSE Cardinality(KeysOf(V[s]))

\* {**self._defaults, **self._variables}, or self._variables: what items()
\* lists and what __eq__ compares with
Merged(V, D, s) ==
    IF DefaultsTruthy(V, D, s)
    THEN [k \in Keys |->
            IF V[s][k] # NOT_SET THEN V[s][k]
            ELSE IF k \in DefaultsKeys(V, D, s) THEN DefaultsGetItem(V, D, s, k)
            ELSE NOT_SET]
    ELSE V[s]

\* Configuration.items
Items(V, D, s) == {<<k, Merged(V, D, s)[k]>> : k \in KeysOf(Merged(V, D, s))}

\* Configuration.__eq__ with a plain mapping
Equals(V, D, s, other) == other = Merged(V, D, s)

\* ------------------------------------------------------------ the machine
\* The operators below transform a record m holding the objects' fields
\* (V variables, D defaults, Ch child lists, Cb change callbacks, En callbacks
\* enabled, Df defer flag, B deferred batches, As autosave, F files, Il
\* is_loaded, Al autoload, Ao autoloader, Wa watching, Ic ignore count, Ev
\* events) and the effects of the call so far: L the callback invocations, Sv
\* the number of saves, Wr the autosave flag at each save, R the value
\* returned, X the exception being raised ("none" if none).
\* An operator applied to a machine that is raising leaves it as it is.
Machine ==
    [V |-> variables, D |-> defaults, Ch |-> child_configs, Cb |-> change_callbacks,
     Lv |-> alive,
     En |-> callbacks_enabled, Df |-> defer_callbacks, B |-> deferred,
     As |-> autosave, F |-> file, Il |-> is_loaded, Al |-> autoload,
     Ao |-> autoloader, Wa |-> watching, Ic |-> ignore_count, Ev |-> events,
     Mv |-> moves, Fp |-> filepath, Ow |-> elsewhere, Ce |-> clear_on_error,
     Be |-> backup_on_error, Bk |-> backups, Ls |-> autoload_scopes,
     Ds |-> disabled_scopes,
     L |-> <<>>, Sv |-> 0, Wr |-> <<>>, Wn |-> <<>>, R |-> FALSE, X |-> "none"]

Raising(m) == m.X # "none"

\* one call of a CallbackSet, or one pass of the loop over a key's callbacks:
\* the callbacks cbs of store s for key k are called with (cur, prev); seen
\* is what a callback that reads config[k] during the call gets, NOT_SET
\* standing for the KeyError of a key that is not contained
Invocation(s, k, cbs, cur, prev, seen) ==
    [s |-> s, k |-> k, cbs |-> cbs, cur |-> cur, prev |-> prev, seen |-> seen]

\* iteration over a CallbackSet that yields the dead callbacks too
LiveAndDead(m, cbs) == cbs

\* CallbackSet.__iter__: the callbacks of the set whose weak reference is
\* not dead
Live(m, cbs) == cbs \cap m.Lv

\* CallbackSet.__call__, and the loop of _run_callbacks when not deferring.
\* Neither catches anything: the exception of a callback ends the loop and
\* leaves the call.  The callbacks of the set that the loop had not reached
\* are then not called; which ones those are depends on the iteration
\* order of a Python set, so the specifications register a raising
\* callback alone on its key.
Invoke(m, s, k, cbs, cur, prev) ==
    IF Live(m, cbs) = {} THEN m
    ELSE LET v == GetItem(m.V, m.D, s, k)
             seen == IF v = KeyErr THEN NOT_SET ELSE v
             raised == Live(m, cbs) \cap Raisers
         IN [m EXCEPT !.L = Append(@, Invocation(s, k, Live(m, cbs), cur, prev, seen)),
                      !.X = IF raised = {} THEN @ ELSE "CallbackError"]

\* CallbackSet._discard
Discard(cbs, callback) == cbs \ {callback}

\* the owner of a callback is destroyed and its weak references die; when
\* finalized, weakref has called _discard of every CallbackSet that holds
\* one, in the registries and in the batches, else the dead references are
\* still in the sets
DestroyOwner(m, callback, finalized) ==
    LET m1 == [m EXCEPT !.Lv = @ \ {callback}]
    IN IF ~finalized THEN m1
       ELSE [m1 EXCEPT
               !.Cb = [s \in Stores |-> [k \in Keys |-> Discard(m.Cb[s][k], callback)]],
               !.B = [s \in Stores |->
                        [i \in 1..Len(m.B[s]) |->
                            [m.B[s][i] EXCEPT !.cbs = Discard(@, callback)]]]]

\* DeferredCallbacks.add: a batch is the ordered dict of its keys, each with
\* its CallbackSet and its (current, previous) pair
DeferredAdd(batch, key, callback, current, previous) ==
    LET idx == {i \in 1..Len(batch) : batch[i].key = key}
        old == IF idx = {}
               THEN [key |-> key, cbs |-> {}, cur |-> current, prev |-> previous]
               ELSE batch[CHOOSE i \in idx : TRUE]
        rest == SelectSeq(batch, LAMBDA e : e.key # key)
    IN Append(rest, [key |-> key, cbs |-> old.cbs \cup {callback},
                     cur |-> current, prev |-> old.prev])

RECURSIVE DeferredAddEach(_, _, _, _, _)
DeferredAddEach(batch, key, cbs, current, previous) ==
    IF cbs = {} THEN batch
    ELSE LET c == CHOOSE x \in cbs : TRUE IN
         DeferredAddEach(DeferredAdd(batch, key, c, current, previous),
                         key, cbs \ {c}, current, previous)

\* DeferredCallbacks.run
RECURSIVE DeferredRun(_, _, _)
DeferredRun(m, s, i) ==
    IF Raising(m) \/ i > Len(m.B[s]) THEN m
    ELSE LET e == m.B[s][i] IN
         DeferredRun(Invoke(m, s, e.key, e.cbs, e.cur, e.prev), s, i + 1)

RECURSIVE RunCallbacks(_, _, _, _, _, _)
RECURSIVE RunChildren(_, _, _, _, _, _, _)

\* _run_callbacks without the test of _change_callbacks_enabled
RunCallbacksEnabled(m, s, key, current, previous, defer_arg) ==
    IF Raising(m) THEN m
    ELSE IF current = previous THEN [m EXCEPT !.X = "AssertionError"]
    ELSE LET defer == defer_arg \/ m.Df[s]
             cbs == Live(m, m.Cb[s][key])
             m1 == IF defer
                   THEN [m EXCEPT !.B[s] = DeferredAddEach(@, key, cbs, current, previous)]
                   ELSE Invoke(m, s, key, cbs, current, previous)
         IN RunChildren(m1, s, 1, key, current, previous, defer)

\* _run_callbacks returning before the loop over _child_configs when the
\* callbacks of the store are disabled
RunCallbacksMuteBelow(m, s, key, current, previous, defer_arg) ==
    IF Raising(m) THEN m
    ELSE IF current = previous THEN [m EXCEPT !.X = "AssertionError"]
    ELSE IF ~m.En[s] THEN m
    ELSE LET defer == defer_arg \/ m.Df[s]
             cbs == Live(m, m.Cb[s][key])
             m1 == IF defer
                   THEN [m EXCEPT !.B[s] = DeferredAddEach(@, key, cbs, current, previous)]
                   ELSE Invoke(m, s, key, cbs, current, previous)
         IN RunChildren(m1, s, 1, key, current, previous, defer)

\* Configuration._run_callbacks; RunChildren is its loop over _child_configs
RunCallbacks(m, s, key, current, previous, defer_arg) ==
    IF Raising(m) THEN m
    ELSE IF current = previous THEN [m EXCEPT !.X = "AssertionError"]
    ELSE LET defer == defer_arg \/ m.Df[s]
             cbs == Live(m, m.Cb[s][key])
             m1 == IF ~m.En[s] THEN m
                   ELSE IF defer
                   THEN [m EXCEPT !.B[s] = DeferredAddEach(@, key, cbs, current, previous)]
                   ELSE Invoke(m, s, key, cbs, current, previous)
         IN RunChildren(m1, s, 1, key, current, previous, defer)

RunChildren(m, s, i, key, current, previous, defer) ==
    IF Raising(m) \/ i > Len(m.Ch[s]) THEN m
    ELSE LET c == m.Ch[s][i]
             m1 == IF m.V[c][key] = NOT_SET
                   THEN RunCallbacks(m, c, key, current, previous, defer)
                   ELSE m
         IN RunChildren(m1, s, i + 1, key, current, previous, defer)

\* Configuration._run_deferred_callbacks
RECURSIVE RunDeferredCallbacks(_, _)
RECURSIVE RunDeferredChildren(_, _, _)
RunDeferredCallbacks(m, s) == RunDeferredChildren(DeferredRun(m, s, 1), s, 1)

RunDeferredChildren(m, s, i) ==
    IF Raising(m) \/ i > Len(m.Ch[s]) THEN m
    ELSE RunDeferredChildren(RunDeferredCallbacks(m, m.Ch[s][i]), s, i + 1)

\* Configuration._clear_deferred_callbacks
RECURSIVE ClearDeferredCallbacks(_, _)
RECURSIVE ClearDeferredChildren(_, _, _)
ClearDeferredCallbacks(m, s) ==
    ClearDeferredChildren([m EXCEPT !.B[s] = <<>>], s, 1)

ClearDeferredChildren(m, s, i) ==
    IF i > Len(m.Ch[s]) THEN m
    ELSE ClearDeferredChildren(ClearDeferredCallbacks(m, m.Ch[s][i]), s, i + 1)

\* Configuration.callbacks_deferred is a generator: DeferredEnter is the part
\* before its yield, DeferredExit the part after it, which takes the local
\* already_deferring and runs only when the body of the with statement
\* did not raise.  The finally clause clears the batches also when a
\* callback raised.
DeferredEnter(m, s) == IF Raising(m) THEN m ELSE [m EXCEPT !.Df[s] = TRUE]

\* callbacks_deferred with the batches cleared only after a flush that
\* returned
DeferredExitNoFinally(m, s, already_deferring) ==
    IF Raising(m) \/ already_deferring THEN m
    ELSE LET m1 == RunDeferredCallbacks([m EXCEPT !.Df[s] = FALSE], s)
         IN IF Raising(m1) THEN m1 ELSE ClearDeferredCallbacks(m1, s)

DeferredExit(m, s, already_deferring) ==
    IF Raising(m) \/ already_deferring THEN m
    ELSE ClearDeferredCallbacks(RunDeferredCallbacks([m EXCEPT !.Df[s] = FALSE], s), s)

\* save() that does not tell the autoloader of the write
SaveNoIgnoreChange(m, s) ==
    IF Raising(m) THEN m
    ELSE [m EXCEPT !.F[s] = JsonFile(JsonDump(m.V[s])),
                   !.Ev[s] = IF m.Wa[s] THEN Append(@, "self") ELSE @,
                   !.Sv = @ + 1,
                   !.Wr = Append(@, m.As[s])]

\* Configuration.save, with Autoloader.ignore_change; the write is a
\* modification of the file, which the watch, if scheduled, reports
Save(m, s) ==
    IF Raising(m) THEN m
    ELSE [m EXCEPT !.Ic[s] = IF m.Ao[s] THEN @ + 1 ELSE @,
                   !.F[s] = JsonFile(JsonDump(m.V[s])),
                   !.Ev[s] = IF m.Wa[s] THEN Append(@, "self") ELSE @,
                   !.Sv = @ + 1,
                   !.Wr = Append(@, m.As[s])]

\* _set_value reporting that the file needs rewriting only when the value
\* the store gives for the key changes
SetValueSaveIfChanged(m, s, key, value) ==
    IF Raising(m) THEN m
    ELSE LET inVars == m.V[s][key] # NOT_SET
             d == DefaultsGetItem(m.V, m.D, s, key)
             previous_value == IF inVars THEN m.V[s][key]
                               ELSE IF d # KeyErr THEN d ELSE NOT_SET
             run_callback == previous_value # value
             m1 == [m EXCEPT !.V[s][key] = value]
             m2 == IF run_callback
                   THEN RunCallbacks(m1, s, key, value, previous_value, FALSE)
                   ELSE m1
         IN IF Raising(m2) THEN m2 ELSE [m2 EXCEPT !.R = run_callback]

\* _set_value taking NOT_SET for the previous value of a key that is not in
\* the variables, whatever the defaults hold
SetValueIgnoreDefaults(m, s, key, value) ==
    IF Raising(m) THEN m
    ELSE LET inVars == m.V[s][key] # NOT_SET
             previous_value == IF inVars THEN m.V[s][key] ELSE NOT_SET
             requires_save == IF inVars THEN previous_value # value ELSE TRUE
             m1 == [m EXCEPT !.V[s][key] = value]
             m2 == IF requires_save
                   THEN RunCallbacks(m1, s, key, value, previous_value, FALSE)
                   ELSE m1
         IN IF Raising(m2) THEN m2 ELSE [m2 EXCEPT !.R = requires_save]

\* Configuration._set_value; R is requires_save
SetValue(m, s, key, value) ==
    IF Raising(m) THEN m
    ELSE LET inVars == m.V[s][key] # NOT_SET
             d == DefaultsGetItem(m.V, m.D, s, key)
             previous_value == IF inVars THEN m.V[s][key]
                               ELSE IF d # KeyErr THEN d ELSE NOT_SET
             requires_save == IF inVars THEN previous_value # value ELSE TRUE
             run_callback == IF inVars THEN requires_save
                             ELSE IF d # KeyErr THEN previous_value # value
                             ELSE TRUE
             m1 == [m EXCEPT !.V[s][key] = value]
             m2 == IF run_callback
                   THEN RunCallbacks(m1, s, key, value, previous_value, FALSE)
                   ELSE m1
         IN IF Raising(m2) THEN m2 ELSE [m2 EXCEPT !.R = requires_save]

\* _delete_key returning quietly when the key is not in the variables
DeleteKeyNoRaise(m, s, key) ==
    IF Raising(m) \/ m.V[s][key] = NOT_SET THEN m
    ELSE LET value == m.V[s][key]
             m1 == [m EXCEPT !.V[s][key] = NOT_SET]
             new_value == DefaultsGetItem(m1.V, m1.D, s, key)
         IN IF new_value = KeyErr
            THEN LET m2 == RunCallbacks(m1, s, key, NOT_SET, value, FALSE) IN
                 IF Raising(m2) THEN m2 ELSE [m2 EXCEPT !.Cb[s][key] = {}]
            ELSE RunCallbacks(m1, s, key, new_value, value, FALSE)

\* _delete_key deleting the key from the layer below as well
DeleteKeyThrough(m, s, key) ==
    LET m1 == DeleteKeyNoRaise(m, s, key) IN
    IF IsConfig(m1.D[s])
    THEN [m1 EXCEPT !.V[m1.D[s].ref][key] = NOT_SET]
    ELSE [m1 EXCEPT !.D[s] = PlainDict([m1.D[s].map EXCEPT ![key] = NOT_SET])]

\* _delete_key keeping the callbacks of a key that has left the configuration
DeleteKeyKeepCallbacks(m, s, key) ==
    IF Raising(m) THEN m
    ELSE IF m.V[s][key] # NOT_SET
    THEN LET value == m.V[s][key]
             m1 == [m EXCEPT !.V[s][key] = NOT_SET]
             new_value == DefaultsGetItem(m1.V, m1.D, s, key)
         IN RunCallbacks(m1, s, key,
                         IF new_value = KeyErr THEN NOT_SET ELSE new_value,
                         value, FALSE)
    ELSE [m EXCEPT !.X = "KeyError"]

\* Configuration._delete_key
DeleteKey(m, s, key) ==
    IF Raising(m) THEN m
    ELSE IF m.V[s][key] # NOT_SET
    THEN LET value == m.V[s][key]
             m1 == [m EXCEPT !.V[s][key] = NOT_SET]
             new_value == DefaultsGetItem(m1.V, m1.D, s, key)
         IN IF new_value = KeyErr
            THEN LET m2 == RunCallbacks(m1, s, key, NOT_SET, value, FALSE) IN
                 IF Raising(m2) THEN m2 ELSE [m2 EXCEPT !.Cb[s][key] = {}]
            ELSE RunCallbacks(m1, s, key, new_value, value, FALSE)
    ELSE LET m1 == IF ~InDefaults(m.V, m.D, s, key)
                   THEN [m EXCEPT !.Cb[s][key] = {}]
                   ELSE m
         IN [m1 EXCEPT !.X = "KeyError"]

\* __setitem__ saving whenever autosave is on, whatever _set_value returns
SetItemAlwaysSave(m, s, key, value) ==
    LET m1 == SetValue(m, s, key, value) IN
    IF ~Raising(m1) /\ m1.As[s] THEN Save(m1, s) ELSE m1

\* Configuration.__setitem__
SetItem(m, s, key, value) ==
    LET m1 == SetValue(m, s, key, value) IN
    IF ~Raising(m1) /\ m1.R /\ m1.As[s] THEN Save(m1, s) ELSE m1

\* Configuration.__delitem__
DelItem(m, s, key) ==
    LET m1 == DeleteKey(m, s, key) IN
    IF ~Raising(m1) /\ m1.As[s] THEN Save(m1, s) ELSE m1

\* the keys of the set S in the order the sequence order lists them: the
\* iteration order of a dict or a set
InOrder(order, S) == SelectSeq(order, LAMBDA k : k \in S)

\* Configuration.update: the loop over other.items(), then the method
RECURSIVE UpdateLoop(_, _, _, _, _, _)
UpdateLoop(m, s, other, keys, i, requires_save) ==
    IF Raising(m) THEN m
    ELSE IF i > Len(keys) THEN [m EXCEPT !.R = requires_save]
    ELSE LET m1 == SetValue(m, s, keys[i], other[keys[i]]) IN
         UpdateLoop(m1, s, other, keys, i + 1, m1.R \/ requires_save)

Update(m, s, other, order) ==
    LET already_deferring == m.Df[s]
        m1 == UpdateLoop(DeferredEnter(m, s), s, other, InOrder(order, KeysOf(other)), 1, FALSE)
        m2 == DeferredExit(m1, s, already_deferring)
    IN IF ~Raising(m2) /\ m1.R /\ m2.As[s] THEN Save(m2, s) ELSE m2

\* the loops of clear() and of the variables setter over _delete_key
RECURSIVE DeleteLoop(_, _, _, _)
DeleteLoop(m, s, keys, i) ==
    IF Raising(m) \/ i > Len(keys) THEN m
    ELSE DeleteLoop(DeleteKey(m, s, keys[i]), s, keys, i + 1)

\* Configuration.clear
Clear(m, s, order) ==
    IF KeysOf(m.V[s]) = {} THEN m
    ELSE LET already_deferring == m.Df[s]
             m1 == DeleteLoop(DeferredEnter(m, s), s, InOrder(order, KeysOf(m.V[s])), 1)
             m2 == DeferredExit(m1, s, already_deferring)
         IN IF ~Raising(m2) /\ m2.As[s] THEN Save(m2, s) ELSE m2

\* the variables setter keeping the keys that the new mapping lacks
SetVariablesKeepKeys(m, s, new, order) ==
    LET already_deferring == m.Df[s]
        m1 == UpdateLoop(DeferredEnter(m, s), s, new, InOrder(order, KeysOf(new)), 1, FALSE)
    IN DeferredExit(m1, s, already_deferring)

\* Configuration.variables (setter), given a mapping that is not the
\* _variables dict itself
SetVariables(m, s, new, order) ==
    LET already_deferring == m.Df[s]
        removed_keys == KeysOf(m.V[s]) \ KeysOf(new)
        m1 == DeleteLoop(DeferredEnter(m, s), s, InOrder(order, removed_keys), 1)
        m2 == UpdateLoop(m1, s, new, InOrder(order, KeysOf(new)), 1, FALSE)
    IN DeferredExit(m2, s, already_deferring)

\* _load_configuration_file taking a file it cannot read for an empty dict
LoadConfigurationFileLenient(m, s) ==
    IF Raising(m) THEN m
    ELSE IF m.F[s].state = "json"
    THEN [m EXCEPT !.Il[s] = TRUE, !.R = JsonLoad(m.F[s].text)]
    ELSE [m EXCEPT !.Il[s] = FALSE, !.R = EmptyMap]

\* Configuration._load_configuration_file; R is the dict returned
LoadConfigurationFile(m, s) ==
    IF Raising(m) THEN m
    ELSE IF m.F[s].state = "missing"
    THEN [m EXCEPT !.Il[s] = FALSE, !.X = "FileNotFoundError"]
    ELSE IF m.F[s].state = "malformed"
    THEN [m EXCEPT !.Il[s] = FALSE, !.X = "JSONDecodeError"]
    ELSE [m EXCEPT !.Il[s] = TRUE, !.R = JsonLoad(m.F[s].text)]

\* Configuration.load
Load(m, s, order) ==
    LET m1 == LoadConfigurationFile(m, s) IN
    IF Raising(m1) THEN m1 ELSE SetVariables(m1, s, m1.R, order)

\* Configuration.autosave (setter)
AutosaveSetter(m, s, value) ==
    IF m.As[s] = value THEN m
    ELSE LET m1 == [m EXCEPT !.As[s] = value]
         IN IF value THEN Save(m1, s) ELSE m1

\* saved.POLICIES
POLICIES == {"immediate", "exit", "exit_no_errors", "manual"}

\* saved.should_save_on_exit; raised says that the block ended in an
\* exception
ShouldSaveOnExit(save_policy, raised) ==
    save_policy = "exit" \/ (save_policy = "exit_no_errors" /\ ~raised)

\* saved.__enter__; R is the value kept in _was_autosave
SavedEnterCall(m, s, save_policy) ==
    LET was_autosave == m.As[s]
    IN [AutosaveSetter(m, s, save_policy = "immediate") EXCEPT !.R = was_autosave]

\* __exit__ saving by the policy before it restores autosave
SavedExitCallSaveFirst(m, s, save_policy, was_autosave, raised) ==
    LET m1 == IF ShouldSaveOnExit(save_policy, raised) THEN Save(m, s) ELSE m
    IN AutosaveSetter(m1, s, was_autosave)

\* saved.__exit__
SavedExitCall(m, s, save_policy, was_autosave, raised) ==
    LET m1 == AutosaveSetter(m, s, was_autosave)
    IN IF ShouldSaveOnExit(save_policy, raised) THEN Save(m1, s) ELSE m1

\* what json.dump is given: a dict, or the read-only proxy that the
\* variables property returns
Dict(map) == [type |-> "dict", map |-> map]
MappingProxy(map) == [type |-> "mappingproxy", map |-> map]

\* Configuration.variables (getter)
VariablesProperty(m, s) == MappingProxy(m.V[s])

\* Autoloader._backup: the first backup name that no file has is opened for
\* writing, which creates the file, and json.dump writes a dict to it; for an
\* object of another type the encoder raises TypeError and the file stays
\* empty
Backup(m, s) ==
    LET obj == VariablesProperty(m, s) IN
    IF obj.type = "dict"
    THEN [m EXCEPT !.Bk[s] = Append(@, JsonFile(JsonDump(obj.map)))]
    ELSE [m EXCEPT !.Bk[s] = Append(@, MalformedFile), !.X = "TypeError"]

\* Autoloader.load, with clear_on_error set and backup_on_error not set, as
\* Autoloader.__init__ leaves them
AutoloaderLoad(m, s, order) ==
    LET m1 == LoadConfigurationFile(m, s)
    IN IF m1.X \in {"FileNotFoundError", "JSONDecodeError"}
       THEN LET m2 == [m1 EXCEPT !.X = "none"]
                b == Backup(m2, s)
                m3 == IF ~m2.Be[s] THEN m2
                      ELSE IF Raising(b)
                      THEN [b EXCEPT !.X = "none",
                                     !.Wn = Append(@, "failed to backup configuration")]
                      ELSE b
            IN IF m3.Ce[s] THEN Clear(m3, s, order) ELSE m3
       ELSE SetVariables(m1, s, m1.R, order)

\* Autoloader.on_modified, given an event for the path of the store's file
OnModified(m, s, order) ==
    IF m.Ic[s] = 0 THEN AutoloaderLoad(m, s, order)
    ELSE [m EXCEPT !.Ic[s] = @ - 1]

\* Configuration.autoload (setter), given a value that differs:
\* _create_autoloader starts a new Autoloader with its own observer thread,
\* _destroy_autoloader stops the thread and drops the Autoloader
SetAutoloadValue(m, s, value) ==
    LET m1 == [m EXCEPT !.Al[s] = value]
    IN IF value /\ m1.Ao[s] THEN [m1 EXCEPT !.X = "AssertionError"]
       ELSE [m1 EXCEPT !.Ao[s] = value, !.Wa[s] = value,
                       !.Ic[s] = 0, !.Ev[s] = <<>>, !.Mv[s] = <<>>,
                       !.Ce[s] = TRUE, !.Be[s] = FALSE]

\* Configuration.defaults (setter): its three loops, then the method
RECURSIVE RemovedLoop(_, _, _, _, _)
RemovedLoop(m, s, old, keys, i) ==
    IF Raising(m) \/ i > Len(keys) THEN m
    ELSE LET key == keys[i]
             m1 == IF m.V[s][key] = NOT_SET
                   THEN RunCallbacks(m, s, key, NOT_SET, DefaultsGetItem(m.V, old, s, key), FALSE)
                   ELSE m
         IN RemovedLoop(m1, s, old, keys, i + 1)

\* the loop over the added keys not skipping the keys the variables hold
RECURSIVE AddedLoopAllKeys(_, _, _, _)
AddedLoopAllKeys(m, s, keys, i) ==
    IF Raising(m) \/ i > Len(keys) THEN m
    ELSE AddedLoopAllKeys(
             RunCallbacks(m, s, keys[i], DefaultsGetItem(m.V, m.D, s, keys[i]), NOT_SET, FALSE),
             s, keys, i + 1)

RECURSIVE AddedLoop(_, _, _, _)
AddedLoop(m, s, keys, i) ==
    IF Raising(m) \/ i > Len(keys) THEN m
    ELSE LET key == keys[i]
             m1 == IF m.V[s][key] = NOT_SET
                   THEN RunCallbacks(m, s, key, DefaultsGetItem(m.V, m.D, s, key), NOT_SET, FALSE)
                   ELSE m
         IN AddedLoop(m1, s, keys, i + 1)

RECURSIVE ExistingLoop(_, _, _, _, _)
ExistingLoop(m, s, old, keys, i) ==
    IF Raising(m) \/ i > Len(keys) THEN m
    ELSE LET key == keys[i]
             previous == DefaultsGetItem(m.V, old, s, key)
             current == DefaultsGetItem(m.V, m.D, s, key)
             m1 == IF m.V[s][key] = NOT_SET /\ current # previous
                   THEN RunCallbacks(m, s, key, current, previous, FALSE)
                   ELSE m
         IN ExistingLoop(m1, s, old, keys, i + 1)

SetDefaults(m, s, new, order) ==
    IF IsConfig(new) /\ new = m.D[s] THEN m
    ELSE LET old == m.D
             m0 == [m EXCEPT !.D[s] = new]
             old_keys == DefaultsKeys(m.V, old, s)
             new_keys == DefaultsKeys(m0.V, m0.D, s)
             already_deferring == m.Df[s]
             m1 == RemovedLoop(DeferredEnter(m0, s), s, old, InOrder(order, old_keys \ new_keys), 1)
             m2 == AddedLoop(m1, s, InOrder(order, new_keys \ old_keys), 1)
             m3 == ExistingLoop(m2, s, old, InOrder(order, old_keys \cap new_keys), 1)
             m4 == DeferredExit(m3, s, already_deferring)
         IN IF ~Raising(m4) /\ IsConfig(new)
            THEN [m4 EXCEPT !.Ch[new.ref] = Append(@, s)]
            ELSE m4

\* ------------------------------------------------------------------ steps
\* every order in which a dict or a set may list the keys
Orders ==
    {o \in [1..Cardinality(Keys) -> Keys] :
        \A i, j \in 1..Cardinality(Keys) : o[i] = o[j] => i = j}

\* the threads of the program; the observer thread of an Autoloader is one
Threads == {"t1", "t2"}
NoThread == "none"
NoCall == [op |-> "none"]

\* threading.RLock: its owner and how many times the owner has acquired it
FreeLock == [owner |-> NoThread, count |-> 0]

Acquirable(lock, t) == lock.owner \in {NoThread, t}

AcquireLock(lock, t) == [owner |-> t, count |-> lock.count + 1]

ReleaseLock(lock) ==
    IF lock.count = 1 THEN FreeLock ELSE [lock EXCEPT !.count = @ - 1]

\* the operations of a store that change it, and the read
Methods == {"set", "delete", "save", "load", "add_callback", "on_modified"}
Setters == {"defaults", "variables", "autosave"}
Unsynchronized == {"autoload"}
Mutating == Methods \cup Setters \cup Unsynchronized
Reading == {"get"}

\* the lock that _synchronized_wrapper takes for a call of an operation of
\* store s.  A method decorated with synchronized is bound to the store, so
\* wrapt passes the store as instance; on_modified enters
\* synchronized(self.config); a property calls its decorated getter or
\* setter as a plain function, so instance is None and the lock is the one
\* of the wrapped function, shared by all stores; the autoload setter is
\* not decorated.
LockOf(s, op) ==
    IF op \in Methods \cup Reading THEN <<"instance", s>>
    ELSE IF op \in Setters THEN <<"function", op>>
    ELSE <<"none", op>>

LockIds ==
    {<<"instance", s>> : s \in Stores} \cup {<<"function", op>> : op \in Setters}

\* a step leaves the objects as the call m left them
CommitData(m, op) ==
    /\ \A s \in Stores : /\ Len(m.Ev[s]) <= MaxEvents
                         /\ Len(m.Mv[s]) <= MaxEvents
                         /\ m.Ic[s] <= MaxEvents
                         /\ Len(m.Bk[s]) <= MaxBackups
    /\ variables' = m.V
    /\ defaults' = m.D
    /\ child_configs' = m.Ch
    /\ change_callbacks' = m.Cb
    /\ alive' = m.Lv
    /\ callbacks_enabled' = m.En
    /\ defer_callbacks' = m.Df
    /\ deferred' = m.B
    /\ autosave' = m.As
    /\ file' = m.F
    /\ is_loaded' = m.Il
    /\ autoload' = m.Al
    /\ autoloader' = m.Ao
    /\ watching' = m.Wa
    /\ ignore_count' = m.Ic
    /\ events' = m.Ev
    /\ moves' = m.Mv
    /\ filepath' = m.Fp
    /\ elsewhere' = m.Ow
    /\ clear_on_error' = m.Ce
    /\ backup_on_error' = m.Be
    /\ backups' = m.Bk
    /\ autoload_scopes' = m.Ls
    /\ disabled_scopes' = m.Ds
    /\ warned' = m.Wn
    /\ writes' = m.Wr
    /\ log' = m.L
    /\ result' = m.X
    /\ saved' = m.Sv
    /\ last' = op

\* a step of a whole call, made while no thread is inside a store
Commit(m, op) ==
    /\ CommitData(m, op)
    /\ UNCHANGED <<locks, stacks, pending>>

NoEntry == [value |-> EmptyMap, cbs |-> [k \in Keys |-> {}]]

Init ==
    /\ variables = [s \in Stores |-> EmptyMap]
    /\ defaults = [s \in Stores |-> PlainDict(EmptyMap)]
    /\ child_configs = [s \in Stores |-> <<>>]
    /\ change_callbacks = [s \in Stores |-> [k \in Keys |-> {}]]
    /\ alive = Obs \cup Raisers
    /\ callbacks_enabled = [s \in Stores |-> TRUE]
    /\ defer_callbacks = [s \in Stores |-> FALSE]
    /\ deferred = [s \in Stores |-> <<>>]
    /\ scopes = [s \in Stores |-> <<>>]
    /\ entered = [s \in Stores |-> NoEntry]
    /\ autosave = [s \in Stores |-> FALSE]
    /\ save_scopes = [s \in Stores |-> <<>>]
    /\ is_loaded = [s \in Stores |-> TRUE]
    /\ autoload = [s \in Stores |-> FALSE]
    /\ autoloader = [s \in Stores |-> FALSE]
    /\ watching = [s \in Stores |-> FALSE]
    /\ ignore_count = [s \in Stores |-> 0]
    /\ events = [s \in Stores |-> <<>>]
    /\ file = [s \in Stores |-> JsonFile(<<>>)]
    /\ moves = [s \in Stores |-> <<>>]
    /\ filepath = [s \in Stores |-> Path(Names[1])]
    /\ elsewhere = [s \in Stores |-> MissingFile]
    /\ clear_on_error = [s \in Stores |-> TRUE]
    /\ backup_on_error = [s \in Stores |-> FALSE]
    /\ backups = [s \in Stores |-> <<>>]
    /\ autoload_scopes = [s \in Stores |-> <<>>]
    /\ disabled_scopes = [s \in Stores |-> <<>>]
    /\ warned = <<>>
    /\ writes = <<>>
    /\ last = [op |-> "init"]
    /\ log = <<>>
    /\ result = "none"
    /\ saved = 0
    /\ locks = [l \in LockIds |-> FreeLock]
    /\ stacks = [t \in Threads |-> <<>>]
    /\ pending = [t \in Threads |-> NoCall]

\* config[key] = value
Set(s, key, value) ==
    /\ Commit(SetItem(Machine, s, key, value), [op |-> "set", s |-> s, k |-> key, v |-> value])
    /\ UNCHANGED <<scopes, entered, save_scopes>>

\* del config[key]
Delete(s, key) ==
    /\ Commit(DelItem(Machine, s, key), [op |-> "delete", s |-> s, k |-> key])
    /\ UNCHANGED <<scopes, entered, save_scopes>>

\* config.update(other)
DoUpdate(s, other, order) ==
    /\ Commit(Update(Machine, s, other, order), [op |-> "update", s |-> s])
    /\ UNCHANGED <<scopes, entered, save_scopes>>

\* config.clear()
DoClear(s, order) ==
    /\ Commit(Clear(Machine, s, order), [op |-> "clear", s |-> s])
    /\ UNCHANGED <<scopes, entered, save_scopes>>

\* config.load()
DoLoad(s, order) ==
    /\ Commit(Load(Machine, s, order), [op |-> "load", s |-> s])
    /\ UNCHANGED <<scopes, entered, save_scopes>>

\* another program writes a JSON object to the backing file
ExternalEdit(s, content) ==
    /\ file[s] # JsonFile(JsonDump(content))
    /\ Commit([Machine EXCEPT !.F[s] = JsonFile(JsonDump(content)),
                              !.Ev[s] = IF watching[s] THEN Append(@, "external") ELSE @],
              [op |-> "edit", s |-> s])
    /\ UNCHANGED <<scopes, entered, save_scopes>>

\* another program writes a text that is not JSON to the backing file
ExternalCorrupt(s) ==
    /\ file[s] # MalformedFile
    /\ Commit([Machine EXCEPT !.F[s] = MalformedFile,
                              !.Ev[s] = IF watching[s] THEN Append(@, "external") ELSE @],
              [op |-> "corrupt", s |-> s])
    /\ UNCHANGED <<scopes, entered, save_scopes>>

\* another program removes the backing file: the watch reports a deletion,
\* which Autoloader.on_deleted drops, since it compares the event's path, a
\* str, with config.filepath, a pathlib.Path
ExternalRemove(s) ==
    /\ file[s] # MissingFile
    /\ Commit([Machine EXCEPT !.F[s] = MissingFile], [op |-> "remove", s |-> s])
    /\ UNCHANGED <<scopes, entered, save_scopes>>

\* config.autoload = value
SetAutoload(s, value) ==
    /\ autoload[s] # value
    /\ Commit(SetAutoloadValue(Machine, s, value), [op |-> "autoload", s |-> s])
    /\ UNCHANGED <<scopes, entered, save_scopes>>

\* the observer thread of the store's Autoloader delivers the oldest modify
\* event of the file to on_modified; cause tells who wrote the file
DeliverModified(s, order) ==
    /\ watching[s]
    /\ events[s] # <<>>
    /\ Commit(OnModified([Machine EXCEPT !.Ev[s] = Tail(@)], s, order),
              [op |-> "modified", s |-> s, cause |-> Head(events[s]),
               loaded |-> (ignore_count[s] = 0)])
    /\ UNCHANGED <<scopes, entered, save_scopes>>

\* with saved(config, policy): enters the block
EnterSaved(s, policy) ==
    /\ Len(save_scopes[s]) < MaxSaved
    /\ LET m == SavedEnterCall(Machine, s, policy)
       IN /\ Commit(m, [op |-> "enter_saved", s |-> s, policy |-> policy])
          /\ save_scopes' = [save_scopes EXCEPT ![s] =
                Append(@, [save_policy |-> policy, was_autosave |-> m.R])]
    /\ UNCHANGED <<scopes, entered>>

\* the innermost saved() block of the store ends, in an exception of its
\* body if raised
ExitSaved(s, raised) ==
    /\ save_scopes[s] # <<>>
    /\ LET n == Len(save_scopes[s])
           top == save_scopes[s][n]
       IN /\ Commit(SavedExitCall(Machine, s, top.save_policy, top.was_autosave, raised),
                    [op |-> "exit_saved", s |-> s, policy |-> top.save_policy,
                     was |-> top.was_autosave, raised |-> raised])
          /\ save_scopes' = [save_scopes EXCEPT ![s] = SubSeq(@, 1, n - 1)]
    /\ UNCHANGED <<scopes, entered>>

\* the last reference to the owner of a callback goes away; finalized says
\* that the weak reference callbacks have run by the end of the step
DestroyCallback(callback, finalized) ==
    /\ callback \in alive
    /\ Commit(DestroyOwner(Machine, callback, finalized),
              [op |-> "destroy", cb |-> callback, finalized |-> finalized])
    /\ UNCHANGED <<scopes, entered, save_scopes>>

\* the weak reference callbacks of the dead callbacks run
Finalize ==
    /\ \/ \E s \in Stores, k \in Keys : change_callbacks[s][k] \ alive # {}
       \/ \E t \in Stores : \E i \in 1..Len(deferred[t]) : deferred[t][i].cbs \ alive # {}
    /\ Commit([Machine EXCEPT
                 !.Cb = [s \in Stores |-> [k \in Keys |-> change_callbacks[s][k] \cap alive]],
                 !.B = [s \in Stores |->
                          [i \in 1..Len(deferred[s]) |->
                              [deferred[s][i] EXCEPT !.cbs = @ \cap alive]]]],
              [op |-> "finalize"])
    /\ UNCHANGED <<scopes, entered, save_scopes>>

\* what the call c does to the objects once it is inside its store
Body(m, c, order) ==
    CASE c.op = "set" -> SetItem(m, c.s, c.k, c.v)
      [] c.op = "delete" -> DelItem(m, c.s, c.k)
      [] c.op = "save" -> Save(m, c.s)
      [] c.op = "load" -> LoadConfigurationFile(m, c.s)
      [] c.op = "variables" -> SetVariables(m, c.s, c.map, order)
      [] c.op = "defaults" -> SetDefaults(m, c.s, PlainDict(c.map), order)
      [] c.op = "autoload" -> IF m.Al[c.s] = c.v THEN m ELSE SetAutoloadValue(m, c.s, c.v)
      [] OTHER -> m

\* the value of n of a call that has taken its lock and has not yet read
\* from the Configuration that is its store's defaults
BeforeRead == -1

\* the call c on a store whose defaults is a Configuration reads from it:
\* __getitem__ evaluates self._defaults[key] in every case, _delete_key
\* reads self._defaults[key] or tests key in self._defaults, _set_value
\* reads self._defaults[key] for a key that is not in _variables, the
\* variables setter does one or the other for each key, and the defaults
\* setter iterates over the old defaults.  Each of these is a call of a
\* synchronized method of the defaults.
ReadsDefaults(c) ==
    /\ c.op \in {"get", "set", "delete", "variables", "defaults"}
    /\ IsConfig(defaults[c.s])
    /\ CASE c.op = "set" -> variables[c.s][c.k] = NOT_SET
         [] c.op = "variables" ->
               \E k \in Keys : (variables[c.s][k] = NOT_SET) # (c.map[k] = NOT_SET)
         [] OTHER -> TRUE

\* the read of a call from the defaults of its store
ReadOfDefaults(c) == [op |-> "get", s |-> defaults[c.s].ref, n |-> 0, cb |-> FALSE]

\* the calls at the top of the stack st, from st[i] down, that wait for
\* their read of the defaults go on when the read is inside the defaults
RECURSIVE Resume(_, _, _, _)
Resume(m, st, i, order) ==
    IF i = 0 THEN m
    ELSE IF st[i].n # BeforeRead THEN m
    ELSE Resume(Body(m, st[i], order), st, i - 1, order)

Resumed(st, called) ==
    [i \in 1..Len(st) |->
        IF \A j \in i..Len(st) : st[j].n = BeforeRead
        THEN [st[i] EXCEPT !.n = 0, !.cb = called]
        ELSE st[i]]

\* a thread calls an operation of a store: from outside the stores, or from
\* inside a call, where a call that reads the defaults calls them, load()
\* assigns the dict it has read to the variables property, and a call that
\* has run callbacks (cb) makes the calls of the callbacks; n counts the
\* calls that the callbacks of a call have made
Request(t, c) ==
    /\ pending[t] = NoCall
    /\ c.n = 0 /\ ~c.cb
    /\ \/ stacks[t] = <<>> /\ c.op # "variables"
       \/ /\ stacks[t] # <<>>
          /\ stacks[t][Len(stacks[t])].n = BeforeRead
          /\ c = ReadOfDefaults(stacks[t][Len(stacks[t])])
       \/ /\ stacks[t] # <<>>
          /\ Len(stacks[t]) < MaxNest
          /\ LET top == stacks[t][Len(stacks[t])]
             IN /\ top.n # BeforeRead
                /\ top.n < MaxInner
                /\ IF top.op = "load"
                   THEN /\ result = "none"
                        /\ c = [op |-> "variables", s |-> top.s, n |-> 0, cb |-> FALSE,
                                map |-> JsonLoad(file[top.s].text)]
                   ELSE c.op # "variables" /\ top.cb
    /\ pending' = [pending EXCEPT ![t] = c]
    /\ CommitData([Machine EXCEPT !.X = result], [op |-> "request", t |-> t])
    /\ UNCHANGED <<locks, stacks, scopes, entered, save_scopes>>

\* _synchronized_wrapper acquires the lock of the call, if it has one, and
\* the wrapped operation runs: up to its read of the defaults if it makes
\* one, otherwise to its end, and with it the calls that were waiting for
\* this read
Enter(t, order) ==
    /\ pending[t] # NoCall
    /\ LET c == pending[t]
           id == LockOf(c.s, c.op)
           st == stacks[t]
           waits == ReadsDefaults(c)
           m == IF waits THEN Machine
                ELSE Resume(Body(Machine, c, order), st, Len(st), order)
           frame == [c EXCEPT !.cb = ~waits /\ Body(Machine, c, order).L # <<>>,
                              !.n = IF waits THEN BeforeRead ELSE 0]
           counted == IF st = <<>> THEN st
                      ELSE IF st[Len(st)].n = BeforeRead THEN st
                      ELSE [st EXCEPT ![Len(st)].n = @ + 1]
       IN /\ id \in LockIds => Acquirable(locks[id], t)
          /\ locks' = IF id \in LockIds
                      THEN [locks EXCEPT ![id] = AcquireLock(@, t)] ELSE locks
          /\ stacks' = [stacks EXCEPT ![t] =
                Append(IF waits THEN counted ELSE Resumed(counted, m.L # <<>>), frame)]
          /\ CommitData(m, [c EXCEPT !.op = "enter"])
    /\ pending' = [pending EXCEPT ![t] = NoCall]
    /\ UNCHANGED <<scopes, entered, save_scopes>>

\* the innermost call of a thread returns and releases its lock
Return(t) ==
    /\ stacks[t] # <<>>
    /\ pending[t] = NoCall
    /\ stacks[t][Len(stacks[t])].n # BeforeRead
    /\ LET n == Len(stacks[t])
           c == stacks[t][n]
           id == LockOf(c.s, c.op)
       IN /\ locks' = IF id \in LockIds
                      THEN [locks EXCEPT ![id] = ReleaseLock(@)] ELSE locks
          /\ stacks' = [stacks EXCEPT ![t] = SubSeq(@, 1, n - 1)]
    /\ CommitData(Machine, [op |-> "return", t |-> t])
    /\ UNCHANGED <<pending, scopes, entered, save_scopes>>

\* config.save()
DoSave(s) ==
    /\ Commit(Save(Machine, s), [op |-> "save", s |-> s])
    /\ UNCHANGED <<scopes, entered, save_scopes>>

\* config.defaults = a plain dict
AssignDefaultsDict(s, map, order) ==
    /\ Commit(SetDefaults(Machine, s, PlainDict(map), order), [op |-> "defaults", s |-> s])
    /\ UNCHANGED <<scopes, entered, save_scopes>>

\* config.defaults = another Configuration; a store takes its defaults from
\* a store of a lower number, so that no chain of defaults is a cycle
AssignDefaultsConfig(s, p, order) ==
    /\ p < s
    /\ Len(child_configs[p]) < MaxChildren
    /\ Commit(SetDefaults(Machine, s, ConfigRef(p), order), [op |-> "defaults", s |-> s])
    /\ UNCHANGED <<scopes, entered, save_scopes>>

\* entering a with config.callbacks_deferred() block
EnterDeferredStep(s) ==
    /\ Len(scopes[s]) < MaxDepth
    /\ scopes' = [scopes EXCEPT ![s] = Append(@, defer_callbacks[s])]
    /\ Commit(DeferredEnter(Machine, s), [op |-> "enter", s |-> s])

EnterDeferred(s) ==
    /\ EnterDeferredStep(s)
    /\ UNCHANGED <<entered, save_scopes>>

\* the same, noting what the store holds when its outermost block is entered
EnterDeferredNoting(s) ==
    /\ EnterDeferredStep(s)
    /\ UNCHANGED save_scopes
    /\ entered' = IF scopes[s] # <<>> THEN entered
                  ELSE [entered EXCEPT ![s] =
                          [value |-> [k \in Keys |->
                                        LET v == GetItem(variables, defaults, s, k) IN
                                        IF v = KeyErr THEN NOT_SET ELSE v],
                           cbs |-> change_callbacks[s]]]

\* leaving the innermost with config.callbacks_deferred() block normally
ExitDeferred(s) ==
    /\ scopes[s] # <<>>
    /\ scopes' = [scopes EXCEPT ![s] = SubSeq(@, 1, Len(@) - 1)]
    /\ Commit(DeferredExit(Machine, s, scopes[s][Len(scopes[s])]), [op |-> "exit", s |-> s])
    /\ UNCHANGED <<entered, save_scopes>>

\* config.add_callback(key, callback)
AddCallback(s, key, callback) ==
    /\ callback \in alive
    /\ callback \notin change_callbacks[s][key]
    /\ Commit([Machine EXCEPT !.Cb[s][key] = @ \cup {callback}],
              [op |-> "add_callback", s |-> s, k |-> key])
    /\ UNCHANGED <<scopes, entered, save_scopes>>

\* config.add_callback(key, callback) of a callback that the key has
\* already: CallbackSet.add puts an equal weak reference in the set
AddCallbackAgain(s, key, callback) ==
    /\ callback \in alive
    /\ callback \in change_callbacks[s][key]
    /\ Commit([Machine EXCEPT !.Cb[s][key] = @ \cup {callback}],
              [op |-> "add_callback", s |-> s, k |-> key, cb |-> callback])
    /\ UNCHANGED <<scopes, entered, save_scopes>>

\* remove_callback that ignores a callback that is not registered
RemoveCallbackDiscard(s, key, callback) ==
    /\ Commit([Machine EXCEPT !.Cb[s][key] = @ \ {callback}],
              [op |-> "remove_callback", s |-> s, k |-> key, cb |-> callback])
    /\ UNCHANGED <<scopes, entered, save_scopes>>

\* config.remove_callback(key, callback)
RemoveCallback(s, key, callback) ==
    /\ Commit(IF callback \in change_callbacks[s][key]
              THEN [Machine EXCEPT !.Cb[s][key] = @ \ {callback}]
              ELSE [Machine EXCEPT !.X = "KeyError"],
              [op |-> "remove_callback", s |-> s, k |-> key, cb |-> callback])
    /\ UNCHANGED <<scopes, entered, save_scopes>>

\* config.enable_callbacks() and config.disable_callbacks()
SetCallbacksEnabled(s, enabled) ==
    /\ callbacks_enabled[s] # enabled
    /\ Commit([Machine EXCEPT !.En[s] = enabled], [op |-> "enable", s |-> s])
    /\ UNCHANGED <<scopes, entered, save_scopes>>

\* config.autosave = value
SetAutosave(s, value) ==
    /\ autosave[s] # value
    /\ Commit(LET m == [Machine EXCEPT !.As[s] = value] IN
              IF value THEN Save(m, s) ELSE m,
              [op |-> "autosave", s |-> s])
    /\ UNCHANGED <<scopes, entered, save_scopes>>

\* --------------------------------------------------------- specifications
\* One store with a plain dict as its defaults and one key: every operation
\* of the store.
OneStore == {1}
OneKey == {1}

Next ==
    \/ \E s \in OneStore, k \in OneKey, v \in Values : Set(s, k, v)
    \/ \E s \in OneStore, k \in OneKey : Delete(s, k)
    \/ \E s \in OneStore, u \in MapsOver(OneKey), o \in Orders : DoUpdate(s, u, o)
    \/ \E s \in OneStore, o \in Orders : DoClear(s, o)
    \/ \E s \in OneStore, o \in Orders : DoLoad(s, o)
    \/ \E s \in OneStore, c \in MapsOver(OneKey) : ExternalEdit(s, c)
    \/ \E s \in OneStore, d \in MapsOver(OneKey), o \in Orders : AssignDefaultsDict(s, d, o)
    \/ \E s \in OneStore : EnterDeferred(s)
    \/ \E s \in OneStore : ExitDeferred(s)
    \/ \E s \in OneStore, k \in OneKey : AddCallback(s, k, "f")
    \/ \E s \in OneStore, k \in OneKey : RemoveCallback(s, k, "f")
    \/ \E s \in OneStore, e \in BOOLEAN : SetCallbacksEnabled(s, e)
    \/ \E s \in OneStore, a \in BOOLEAN : SetAutosave(s, a)

Spec == Init /\ [][Next]_vars

\* A store (2) whose defaults is a plain dict or the store 1, which has a
\* plain dict as its defaults: three layers, two keys, no callbacks.
FileContents == {EmptyMap, [k \in Keys |-> IF k = 1 THEN 2 ELSE NOT_SET]}
DictDefaults ==
    {EmptyMap, [k \in Keys |-> IF k = 2 THEN 1 ELSE NOT_SET], [k \in Keys |-> k]}

NextMerge ==
    \/ \E s \in {1, 2}, k \in Keys, v \in Values : Set(s, k, v)
    \/ \E s \in {1, 2}, k \in Keys : Delete(s, k)
    \/ \E u \in Maps, o \in Orders : DoUpdate(2, u, o)
    \/ \E o \in Orders : DoClear(2, o)
    \/ \E o \in Orders : DoLoad(2, o)
    \/ \E c \in FileContents : ExternalEdit(2, c)
    \/ \E d \in DictDefaults, o \in Orders : AssignDefaultsDict(1, d, o)
    \/ \E o \in Orders : AssignDefaultsDict(2, EmptyMap, o)
    \/ \E o \in Orders : AssignDefaultsConfig(2, 1, o)

SpecMerge == Init /\ [][NextMerge]_vars

\* A parent store 1 and a store 2 that may take it as its defaults, one key,
\* callbacks on store 2: the operations that change the key, and blocks of
\* deferred callbacks on either store.
NextPair ==
    \/ \E s \in {1, 2}, k \in OneKey, v \in Values : Set(s, k, v)
    \/ \E s \in {1, 2}, k \in OneKey : Delete(s, k)
    \/ \E s \in {1, 2}, u \in MapsOver(OneKey) \ {EmptyMap}, o \in Orders : DoUpdate(s, u, o)
    \/ \E s \in {1, 2}, o \in Orders : DoClear(s, o)
    \/ \E o \in Orders : AssignDefaultsConfig(2, 1, o)
    \/ \E o \in Orders : AssignDefaultsDict(2, EmptyMap, o)
    \/ \E s \in {1, 2} : EnterDeferred(s)
    \/ \E s \in {1, 2} : ExitDeferred(s)
    \/ \E k \in OneKey : AddCallback(2, k, "f")

SpecPair == Init /\ [][NextPair]_vars

\* The same two stores with autosave, callbacks on both, and callbacks
\* called at once: set, delete and reassignment of the defaults of store 2.
NextHierarchy ==
    \/ \E s \in {1, 2}, k \in OneKey, v \in Values : Set(s, k, v)
    \/ \E s \in {1, 2}, k \in OneKey : Delete(s, k)
    \/ \E o \in Orders : AssignDefaultsConfig(2, 1, o)
    \/ \E o \in Orders : AssignDefaultsDict(2, EmptyMap, o)
    \/ \E s \in {1, 2}, k \in OneKey : AddCallback(s, k, "f")
    \/ \E s \in {1, 2}, a \in BOOLEAN : SetAutosave(s, a)

SpecHierarchy == Init /\ [][NextHierarchy]_vars

\* Three stores that may form chains of defaults, one key, callbacks called
\* at once: set, delete and reassignment of the defaults.
NextChain ==
    \/ \E s \in Stores, k \in OneKey, v \in Values : Set(s, k, v)
    \/ \E s \in Stores, k \in OneKey : Delete(s, k)
    \/ \E s, p \in Stores, o \in Orders : AssignDefaultsConfig(s, p, o)
    \/ \E s \in Stores, o \in Orders : AssignDefaultsDict(s, EmptyMap, o)
    \/ \E s \in Stores, k \in OneKey : AddCallback(s, k, "f")

SpecChain == Init /\ [][NextChain]_vars

\* One store, two keys, its defaults any plain dict: reassignment of the
\* defaults among the operations that change the keys.
NextDefaults ==
    \/ \E s \in OneStore, k \in Keys, v \in Values : Set(s, k, v)
    \/ \E s \in OneStore, k \in Keys : Delete(s, k)
    \/ \E s \in OneStore, d \in Maps, o \in Orders : AssignDefaultsDict(s, d, o)
    \/ \E s \in OneStore, k \in Keys : AddCallback(s, k, "f")

SpecDefaults == Init /\ [][NextDefaults]_vars

\* One store without defaults, two keys: blocks of deferred callbacks around
\* the operations that change the keys; callbacks are registered outside
\* the blocks and only keys that the store holds are deleted.
NextDeferred ==
    \/ \E s \in OneStore, k \in Keys, v \in Values : Set(s, k, v)
    \/ \E s \in OneStore, k \in Keys : variables[s][k] # NOT_SET /\ Delete(s, k)
    \/ \E s \in OneStore, u \in Maps, o \in Orders : DoUpdate(s, u, o)
    \/ \E s \in OneStore, o \in Orders : DoClear(s, o)
    \/ \E s \in OneStore : EnterDeferredNoting(s)
    \/ \E s \in OneStore : ExitDeferred(s)
    \/ \E s \in OneStore, k \in Keys : scopes[s] = <<>> /\ AddCallback(s, k, "f")

SpecDeferred == Init /\ [][NextDeferred]_vars

\* One store with two keys and a plain dict as its defaults: saving to the
\* backing file and loading from it, while another program may rewrite the
\* file.
FileDefaults == {EmptyMap, [k \in Keys |-> k]}

NextFile ==
    \/ \E s \in OneStore, k \in Keys, v \in Values : Set(s, k, v)
    \/ \E s \in OneStore : DoSave(s)
    \/ \E s \in OneStore, o \in Orders : DoLoad(s, o)
    \/ \E s \in OneStore, c \in FileContents : ExternalEdit(s, c)
    \/ \E s \in OneStore, d \in FileDefaults, o \in Orders : AssignDefaultsDict(s, d, o)
    \/ \E s \in OneStore, k \in Keys : AddCallback(s, k, "f")

SpecFile == Init /\ [][NextFile]_vars

\* One store with one key: the same, with autosave, while another program
\* may also corrupt or remove the file.
NextBadFile ==
    \/ \E s \in OneStore, k \in OneKey, v \in Values : Set(s, k, v)
    \/ \E s \in OneStore, k \in OneKey : Delete(s, k)
    \/ \E s \in OneStore : DoSave(s)
    \/ \E s \in OneStore, o \in Orders : DoLoad(s, o)
    \/ \E s \in OneStore, c \in MapsOver(OneKey) : ExternalEdit(s, c)
    \/ \E s \in OneStore : ExternalCorrupt(s)
    \/ \E s \in OneStore : ExternalRemove(s)
    \/ \E s \in OneStore, d \in MapsOver(OneKey), o \in Orders : AssignDefaultsDict(s, d, o)
    \/ \E s \in OneStore, k \in OneKey : AddCallback(s, k, "f")
    \/ \E s \in OneStore, a \in BOOLEAN : SetAutosave(s, a)

SpecBadFile == Init /\ [][NextBadFile]_vars

\* One store with one key, autosave and autoload: the store saves its own
\* changes and its watcher reloads the file when it is modified.
NextAutoload ==
    \/ \E s \in OneStore, k \in OneKey, v \in Values : Set(s, k, v)
    \/ \E s \in OneStore, k \in OneKey : Delete(s, k)
    \/ \E s \in OneStore, a \in BOOLEAN : SetAutosave(s, a)
    \/ \E s \in OneStore, a \in BOOLEAN : SetAutoload(s, a)
    \/ \E s \in OneStore, o \in Orders : DeliverModified(s, o)
    \/ \E s \in OneStore, c \in MapsOver(OneKey) : ExternalEdit(s, c)
    \/ \E s \in OneStore, d \in MapsOver(OneKey), o \in Orders : AssignDefaultsDict(s, d, o)
    \/ \E s \in OneStore, k \in OneKey : AddCallback(s, k, "f")

SpecAutoload == Init /\ [][NextAutoload]_vars

\* One store with two keys and autoload: another program rewrites the file
\* and the store's watcher reloads it.
NextWatch ==
    \/ \E s \in OneStore, k \in Keys, v \in Values : Set(s, k, v)
    \/ \E s \in OneStore, a \in BOOLEAN : SetAutoload(s, a)
    \/ \E s \in OneStore, o \in Orders : DeliverModified(s, o)
    \/ \E s \in OneStore, c \in FileContents : ExternalEdit(s, c)
    \/ \E s \in OneStore, d \in FileDefaults, o \in Orders : AssignDefaultsDict(s, d, o)
    \/ \E s \in OneStore, k \in Keys : AddCallback(s, k, "f")

SpecWatch == Init /\ [][NextWatch]_vars

\* One store with one key and autosave, whose file no other program
\* writes.
NextAutosave ==
    \/ \E s \in OneStore, k \in OneKey, v \in Values : Set(s, k, v)
    \/ \E s \in OneStore, k \in OneKey : Delete(s, k)
    \/ \E s \in OneStore, u \in MapsOver(OneKey), o \in Orders : DoUpdate(s, u, o)
    \/ \E s \in OneStore, o \in Orders : DoClear(s, o)
    \/ \E s \in OneStore, o \in Orders : DoLoad(s, o)
    \/ \E s \in OneStore, d \in MapsOver(OneKey), o \in Orders : AssignDefaultsDict(s, d, o)
    \/ \E s \in OneStore, k \in OneKey : AddCallback(s, k, "f")
    \/ \E s \in OneStore, a \in BOOLEAN : SetAutosave(s, a)

SpecAutosave == Init /\ [][NextAutosave]_vars

\* the other name of the directory
OtherName(name) == IF name = Names[1] THEN Names[2] ELSE Names[1]

\* Configuration.filepath (setter): the argument becomes a pathlib.Path; if
\* it differs from the current path it is stored, the autoloader of a store
\* with autoload is destroyed and created again, and the store loads the
\* file at the new path
FilepathSetter(m, s, path, order) ==
    LET new == Path(path.name) IN
    IF Raising(m) \/ new = m.Fp[s] THEN m
    ELSE LET m1 == [m EXCEPT !.Fp[s] = new, !.F[s] = m.Ow[s], !.Ow[s] = m.F[s]]
             m2 == IF m1.Al[s]
                   THEN [m1 EXCEPT !.Ao[s] = TRUE, !.Wa[s] = TRUE, !.Ic[s] = 0,
                                   !.Ev[s] = <<>>, !.Mv[s] = <<>>,
                                   !.Ce[s] = TRUE, !.Be[s] = FALSE]
                   ELSE m1
         IN Load(m2, s, order)

\* Autoloader.on_moved: event.src_path, a str, is compared with
\* config.filepath, a pathlib.Path
OnMoved(m, s, event, order) ==
    IF event.src_path = m.Fp[s]
    THEN FilepathSetter(m, s, event.dest_path, order)
    ELSE m

\* config.filepath = name
SetFilepath(s, name, order) ==
    /\ Commit(FilepathSetter(Machine, s, Str(name), order),
              [op |-> "filepath", s |-> s, name |-> name])
    /\ UNCHANGED <<scopes, entered, save_scopes>>

\* another program renames the backing file to the other name of the
\* directory, which the watch, if scheduled, reports as a move
ExternalMove(s) ==
    /\ file[s].state # "missing"
    /\ Commit([Machine EXCEPT
                 !.F[s] = MissingFile,
                 !.Ow[s] = file[s],
                 !.Mv[s] = IF watching[s]
                           THEN Append(@, [src_path |-> Str(filepath[s].name),
                                           dest_path |-> Str(OtherName(filepath[s].name))])
                           ELSE @],
              [op |-> "move", s |-> s])
    /\ UNCHANGED <<scopes, entered, save_scopes>>

\* the watchdog thread delivers the oldest move event to on_moved
DeliverMoved(s, order) ==
    /\ watching[s]
    /\ moves[s] # <<>>
    /\ Commit(OnMoved([Machine EXCEPT !.Mv[s] = Tail(@)], s, Head(moves[s]), order),
              [op |-> "moved", s |-> s, event |-> Head(moves[s])])
    /\ UNCHANGED <<scopes, entered, save_scopes>>

\* One store with one key and autoload, whose backing file another program
\* rewrites and renames, and whose filepath the program may assign.
NextMove ==
    \/ \E s \in OneStore, k \in OneKey, v \in Values : Set(s, k, v)
    \/ \E s \in OneStore, a \in BOOLEAN : SetAutoload(s, a)
    \/ \E s \in OneStore, i \in 1..Len(Names), o \in Orders : SetFilepath(s, Names[i], o)
    \/ \E s \in OneStore : DoSave(s)
    \/ \E s \in OneStore : ExternalMove(s)
    \/ \E s \in OneStore, o \in Orders : DeliverMoved(s, o)
    \/ \E s \in OneStore, o \in Orders : DeliverModified(s, o)
    \/ \E s \in OneStore, c \in MapsOver(OneKey) : ExternalEdit(s, c)
    \/ \E s \in OneStore, k \in OneKey : AddCallback(s, k, "f")

SpecMove == Init /\ [][NextMove]_vars

\* callbacks_disabled(), up to the yield
CallbacksDisabledEnter(m, s) ==
    LET was_enabled == m.En[s]
    IN [m EXCEPT !.En[s] = FALSE, !.Ds[s] = Append(@, was_enabled)]

\* callbacks_disabled(), after the yield; a body that raised ends the
\* generator at the yield
CallbacksDisabledExit(m, s, raised) ==
    LET n == Len(m.Ds[s])
        was_enabled == m.Ds[s][n]
        m1 == [m EXCEPT !.Ds[s] = SubSeq(@, 1, n - 1)]
    IN IF ~raised /\ was_enabled THEN [m1 EXCEPT !.En[s] = TRUE] ELSE m1

\* with config.callbacks_disabled():
EnterCallbacksDisabled(s) ==
    /\ Len(disabled_scopes[s]) < MaxDepth
    /\ Commit(CallbacksDisabledEnter(Machine, s),
              [op |-> "enter_callbacks_disabled", s |-> s])
    /\ UNCHANGED <<scopes, entered, save_scopes>>

\* the end of the block, with or without an exception of its body
ExitCallbacksDisabled(s, raised) ==
    /\ disabled_scopes[s] # <<>>
    /\ Commit(CallbacksDisabledExit(Machine, s, raised),
              [op |-> "exit_callbacks_disabled", s |-> s, raised |-> raised,
               was |-> disabled_scopes[s][Len(disabled_scopes[s])]])
    /\ UNCHANGED <<scopes, entered, save_scopes>>

\* A parent store 1 and a store 2 that may take it as its defaults, one key,
\* a callback on store 2: the operations that change the key, with the
\* callbacks of store 2 enabled and disabled, by the methods and by
\* callbacks_disabled() blocks, and blocks of deferred callbacks on store 2;
\* the blocks of a kind are not nested and store 2 takes its parent once.
NextQuiet ==
    \/ \E s \in {1, 2}, k \in OneKey, v \in Values : Set(s, k, v)
    \/ \E s \in {1, 2}, k \in OneKey : Delete(s, k)
    \/ \E u \in MapsOver(OneKey) \ {EmptyMap}, o \in Orders : DoUpdate(2, u, o)
    \/ \E o \in Orders : DoClear(2, o)
    \/ \E o \in Orders : ~IsConfig(defaults[2]) /\ AssignDefaultsConfig(2, 1, o)
    \/ \E k \in OneKey : AddCallback(2, k, "f")
    \/ \E e \in BOOLEAN : SetCallbacksEnabled(2, e)
    \/ disabled_scopes[2] = <<>> /\ EnterCallbacksDisabled(2)
    \/ \E r \in BOOLEAN : ExitCallbacksDisabled(2, r)
    \/ scopes[2] = <<>> /\ EnterDeferred(2)
    \/ ExitDeferred(2)

SpecQuiet == Init /\ [][NextQuiet]_vars

\* Autoloader.clear_on_error and backup_on_error, attributes that the
\* program assigns on the store's autoloader
SetOnError(s, clear, backup) ==
    /\ autoloader[s]
    /\ <<clear, backup>> # <<clear_on_error[s], backup_on_error[s]>>
    /\ Commit([Machine EXCEPT !.Ce[s] = clear, !.Be[s] = backup],
              [op |-> "on_error", s |-> s])
    /\ UNCHANGED <<scopes, entered, save_scopes>>

\* Autoloader.disable: the watch is unscheduled, and the observer drops
\* the events of an unscheduled watch
AutoloaderDisable(m, s) ==
    IF m.Wa[s] THEN [m EXCEPT !.Wa[s] = FALSE, !.Ev[s] = <<>>, !.Mv[s] = <<>>]
    ELSE m

\* Autoloader.enable: the handler is scheduled again on the same observer
AutoloaderEnable(m, s) == [m EXCEPT !.Wa[s] = TRUE]

\* autoload_disabled(), up to the yield
AutoloadDisabledEnter(m, s) ==
    LET was_autoload == m.Al[s]
        m1 == IF m.Al[s] THEN AutoloaderDisable([m EXCEPT !.Al[s] = FALSE], s)
              ELSE m
    IN [m1 EXCEPT !.Ls[s] = Append(@, was_autoload)]

\* the exit of autoload_disabled() that makes a new Autoloader
AutoloadDisabledExitNew(m, s, raised) ==
    LET n == Len(m.Ls[s])
        was_autoload == m.Ls[s][n]
        m1 == [m EXCEPT !.Ls[s] = SubSeq(@, 1, n - 1)]
    IN IF raised \/ ~was_autoload THEN m1
       ELSE SetAutoloadValue([m1 EXCEPT !.Ao[s] = FALSE], s, TRUE)

\* autoload_disabled(), after the yield; a body that raised ends the
\* generator at the yield
AutoloadDisabledExit(m, s, raised) ==
    LET n == Len(m.Ls[s])
        was_autoload == m.Ls[s][n]
        m1 == [m EXCEPT !.Ls[s] = SubSeq(@, 1, n - 1)]
    IN IF raised \/ ~was_autoload THEN m1
       ELSE AutoloaderEnable([m1 EXCEPT !.Al[s] = TRUE], s)

\* with config.autoload_disabled():
EnterAutoloadDisabled(s) ==
    /\ Len(autoload_scopes[s]) < MaxDepth
    /\ Commit(AutoloadDisabledEnter(Machine, s),
              [op |-> "enter_autoload_disabled", s |-> s])
    /\ UNCHANGED <<scopes, entered, save_scopes>>

\* the end of the block, with or without an exception of its body
ExitAutoloadDisabled(s, raised) ==
    /\ autoload_scopes[s] # <<>>
    /\ Commit(AutoloadDisabledExit(Machine, s, raised),
              [op |-> "exit_autoload_disabled", s |-> s, raised |-> raised,
               was |-> autoload_scopes[s][Len(autoload_scopes[s])]])
    /\ UNCHANGED <<scopes, entered, save_scopes>>

\* One store with one key, autoload and autoload_disabled() blocks, whose
\* file the store saves and another program rewrites; the program assigns
\* the autoload property only outside the blocks.
NextPause ==
    \/ \E s \in OneStore, k \in OneKey, v \in Values : Set(s, k, v)
    \/ \E s \in OneStore : DoSave(s)
    \/ \E s \in OneStore, a \in BOOLEAN : autoload_scopes[s] = <<>> /\ SetAutoload(s, a)
    \/ \E s \in OneStore, c \in BOOLEAN, b \in BOOLEAN : SetOnError(s, c, b)
    \/ \E s \in OneStore : EnterAutoloadDisabled(s)
    \/ \E s \in OneStore, r \in BOOLEAN : ExitAutoloadDisabled(s, r)
    \/ \E s \in OneStore, o \in Orders : DeliverModified(s, o)
    \/ \E s \in OneStore, c \in MapsOver(OneKey) : ExternalEdit(s, c)
    \/ \E s \in OneStore, k \in OneKey : AddCallback(s, k, "f")

SpecPause == Init /\ [][NextPause]_vars

\* One store with one key and autoload, whose file another program may
\* rewrite, corrupt or remove, and the two switches of its watcher.
NextRecover ==
    \/ \E s \in OneStore, k \in OneKey, v \in Values : Set(s, k, v)
    \/ \E s \in OneStore, a \in BOOLEAN : SetAutoload(s, a)
    \/ \E s \in OneStore, c \in BOOLEAN, b \in BOOLEAN : SetOnError(s, c, b)
    \/ \E s \in OneStore, o \in Orders : DeliverModified(s, o)
    \/ \E s \in OneStore, c \in MapsOver(OneKey) : ExternalEdit(s, c)
    \/ \E s \in OneStore : ExternalCorrupt(s)
    \/ \E s \in OneStore : ExternalRemove(s)
    \/ \E s \in OneStore, d \in MapsOver(OneKey), o \in Orders : AssignDefaultsDict(s, d, o)
    \/ \E s \in OneStore, k \in OneKey : AddCallback(s, k, "f")

SpecRecover == Init /\ [][NextRecover]_vars

\* One store with one key, autosave and saved() blocks; inside a block the
\* program leaves the autosave property alone.
NextSaved ==
    \/ \E s \in OneStore, k \in OneKey, v \in Values : Set(s, k, v)
    \/ \E s \in OneStore, k \in OneKey : Delete(s, k)
    \/ \E s \in OneStore, u \in MapsOver(OneKey), o \in Orders : DoUpdate(s, u, o)
    \/ \E s \in OneStore, o \in Orders : DoClear(s, o)
    \/ \E s \in OneStore : DoSave(s)
    \/ \E s \in OneStore, d \in MapsOver(OneKey), o \in Orders : AssignDefaultsDict(s, d, o)
    \/ \E s \in OneStore, a \in BOOLEAN : save_scopes[s] = <<>> /\ SetAutosave(s, a)
    \/ \E s \in OneStore, p \in POLICIES : EnterSaved(s, p)
    \/ \E s \in OneStore, r \in BOOLEAN : ExitSaved(s, r)

SpecSaved == Init /\ [][NextSaved]_vars

\* One store with one key and two callbacks, which the program adds, adds
\* again and removes.
NextCallbacks ==
    \/ \E s \in OneStore, k \in OneKey, v \in Values : Set(s, k, v)
    \/ \E s \in OneStore, k \in OneKey : Delete(s, k)
    \/ \E s \in OneStore, k \in OneKey, c \in Obs : AddCallback(s, k, c)
    \/ \E s \in OneStore, k \in OneKey, c \in Obs : AddCallbackAgain(s, k, c)
    \/ \E s \in OneStore, k \in OneKey, c \in Obs : RemoveCallback(s, k, c)
    \/ \E s \in OneStore, d \in MapsOver(OneKey), o \in Orders : AssignDefaultsDict(s, d, o)
    \/ \E s \in OneStore : EnterDeferred(s)
    \/ \E s \in OneStore : ExitDeferred(s)

SpecCallbacks == Init /\ [][NextCallbacks]_vars

\* One store with one key and two callbacks whose owners get destroyed,
\* also while a batch holds them.
NextWeak ==
    \/ \E s \in OneStore, k \in OneKey, v \in Values : Set(s, k, v)
    \/ \E s \in OneStore, k \in OneKey : Delete(s, k)
    \/ \E s \in OneStore, k \in OneKey, c \in Obs : AddCallback(s, k, c)
    \/ \E c \in Obs, f \in BOOLEAN : DestroyCallback(c, f)
    \/ Finalize
    \/ \E s \in OneStore : EnterDeferred(s)
    \/ \E s \in OneStore : ExitDeferred(s)

SpecWeak == Init /\ [][NextWeak]_vars

\* Two threads calling one store with one key; a callback may call the
\* store again.
Calls(s) ==
    {[op |-> "set", s |-> s, n |-> 0, cb |-> FALSE, k |-> 1, v |-> v] : v \in Values}
    \cup {[op |-> o, s |-> s, n |-> 0, cb |-> FALSE] : o \in {"get", "load"}}
    \cup {[op |-> o, s |-> s, n |-> 0, cb |-> FALSE, map |-> [k \in Keys |-> k]] :
             o \in {"defaults", "variables"}}
    \cup {[op |-> "autoload", s |-> s, n |-> 0, cb |-> FALSE, v |-> TRUE]}

NextLock ==
    \/ \E t \in Threads, s \in OneStore : \E c \in Calls(s) : Request(t, c)
    \/ \E t \in Threads, o \in Orders : Enter(t, o)
    \/ \E t \in Threads : Return(t)
    \/ \E s \in OneStore, k \in OneKey : stacks = [t \in Threads |-> <<>>] /\ AddCallback(s, k, "f")

SpecLock == Init /\ [][NextLock]_vars

\* ------------------------------------------------------------------ claims
\* The merge the documentation defines: the value of k in the variables of s
\* if k is there, else the value of k in the defaults of s, looked up the
\* same way when the defaults is a Configuration; NOT_SET if k is nowhere.
RECURSIVE Effective(_, _, _, _)
Effective(V, D, s, k) ==
    IF V[s][k] # NOT_SET THEN V[s][k]
    ELSE IF IsConfig(D[s]) THEN Effective(V, D, D[s].ref, k)
    ELSE D[s].map[k]

EffectiveMap(V, D, s) == [k \in Keys |-> Effective(V, D, s, k)]

\* C1: in every reachable state, for every store and key, __getitem__,
\* __contains__, __len__, keys, items and == with a plain mapping give what
\* the merge of variables over the defaults chain gives, and __getitem__
\* raises KeyError exactly when the key is in no layer.
ClaimC1 ==
    \A s \in Stores :
        LET merge == EffectiveMap(variables, defaults, s) IN
        /\ \A k \in Keys :
              /\ GetItem(variables, defaults, s, k)
                    = (IF merge[k] = NOT_SET THEN KeyErr ELSE merge[k])
              /\ Contains(variables, defaults, s, k) <=> merge[k] # NOT_SET
        /\ Length(variables, defaults, s) = Cardinality(KeysOf(merge))
        /\ KeySet(variables, defaults, s) = KeysOf(merge)
        /\ Items(variables, defaults, s) = {<<k, merge[k]>> : k \in KeysOf(merge)}
        /\ \A other \in Maps : Equals(variables, defaults, s, other) <=> other = merge

\* store 2 was just loaded; it shadows key 1 of store 1 with another value and
\* takes key 2 from the plain dict that is the defaults of store 1
WitnessC1 ==
    /\ last.op = "load"
    /\ IsConfig(defaults[2])
    /\ variables[2][1] # NOT_SET
    /\ variables[1][1] \notin {NOT_SET, variables[2][1]}
    /\ variables[2][2] = NOT_SET
    /\ variables[1][2] = NOT_SET
    /\ ~IsConfig(defaults[1])
    /\ defaults[1].map[2] # NOT_SET
    /\ GetItem(variables, defaults, 2, 2) = defaults[1].map[2]
    /\ Length(variables, defaults, 2) = 2

\* the invocations of the last step that called callbacks of store s
LogOf(L, s) == SelectSeq(L, LAMBDA e : e.s = s)

\* C4: a set of key k to value v on a store always leaves v in the variables
\* and as the value read back; with callbacks enabled and not deferring it
\* calls the callbacks of k on that store, once, with (v, previous) and with
\* v to be read from the store, exactly when v differs from previous, the value of k in the variables if it is
\* there, else the inherited one, else NOT_SET.
ClaimC4 ==
    [][\A s \in Stores, k \in Keys, v \in Values :
          (last'.op = "set" /\ last'.s = s /\ last'.k = k /\ last'.v = v) =>
              LET previous == Effective(variables, defaults, s, k)
                  observers == change_callbacks[s][k]
              IN /\ result' = "none"
                 /\ variables'[s][k] = v
                 /\ GetItem(variables', defaults', s, k) = v
                 /\ (callbacks_enabled[s] /\ ~defer_callbacks[s]) =>
                       LogOf(log', s) =
                           IF v # previous /\ observers # {}
                           THEN <<Invocation(s, k, observers, v, previous, v)>>
                           ELSE <<>>
      ]_vars

\* a set has just replaced a value that was only inherited from the plain
\* dict defaults, and the callback of the key was called with the new value
\* and the inherited one
WitnessC4 ==
    /\ last.op = "set"
    /\ ~IsConfig(defaults[last.s])
    /\ defaults[last.s].map[last.k] \notin {NOT_SET, last.v}
    /\ log = <<Invocation(last.s, last.k, {"f"}, last.v,
                        defaults[last.s].map[last.k], last.v)>>
    /\ variables[last.s][last.k] = last.v

\* C5 as stated: a set of a key to its effective value, held in the variables
\* or only inherited, calls no callback, batches none and, with autosave on,
\* does not write the file.
OriginalC5 ==
    [][\A s \in Stores, k \in Keys, v \in Values :
          (/\ last'.op = "set" /\ last'.s = s /\ last'.k = k /\ last'.v = v
           /\ v = Effective(variables, defaults, s, k)) =>
              /\ log' = <<>>
              /\ deferred' = deferred
              /\ autosave[s] => (saved' = 0 /\ file' = file)
      ]_vars

\* C5: a set of a key to its effective value calls no callback and batches
\* none; with autosave on it writes nothing when the value was held in the
\* variables, and writes the file once when the value was only inherited,
\* since the key is then new in the variables.
ClaimC5 ==
    [][\A s \in Stores, k \in Keys, v \in Values :
          (/\ last'.op = "set" /\ last'.s = s /\ last'.k = k /\ last'.v = v
           /\ v = Effective(variables, defaults, s, k)) =>
              /\ log' = <<>>
              /\ deferred' = deferred
              /\ autosave[s] =>
                    IF variables[s][k] # NOT_SET
                    THEN saved' = 0 /\ file' = file
                    ELSE saved' = 1 /\ file'[s] = JsonFile(JsonDump(variables'[s]))
      ]_vars

\* with autosave on, callbacks enabled and a callback registered, a set has
\* just run without calling anything and without writing: the value was the
\* one the variables held; the file still lacks the key
WitnessC5 ==
    /\ last.op = "set"
    /\ autosave[last.s]
    /\ callbacks_enabled[last.s] /\ ~defer_callbacks[last.s]
    /\ change_callbacks[last.s][last.k] = {"f"}
    /\ log = <<>>
    /\ saved = 0
    /\ result = "none"
    /\ JsonLoad(file[last.s].text)[last.k] # last.v

\* C6: a delete of a key that is not in the variables of the store raises
\* KeyError, also when the key is inherited; the variables and the defaults
\* of every store stay as they were, no callback is called or batched, and
\* the file is not written.
ClaimC6 ==
    [][\A s \in Stores, k \in Keys :
          (/\ last'.op = "delete" /\ last'.s = s /\ last'.k = k
           /\ variables[s][k] = NOT_SET) =>
              /\ result' = "KeyError"
              /\ variables' = variables
              /\ defaults' = defaults
              /\ log' = <<>>
              /\ deferred' = deferred
              /\ saved' = 0
              /\ file' = file
      ]_vars

\* a delete of a key that store 2 only inherits from store 1 has just raised
\* KeyError, with autosave on and a callback registered for the key on
\* store 2
WitnessC6 ==
    /\ last.op = "delete"
    /\ last.s = 2
    /\ result = "KeyError"
    /\ defaults[2] = ConfigRef(1)
    /\ variables[2][last.k] = NOT_SET
    /\ Contains(variables, defaults, 2, last.k)
    /\ autosave[2]
    /\ change_callbacks[2][last.k] # {}

\* C7 as stated: a delete of a key that is both in the variables and in the
\* defaults returns normally and never calls a callback with NOT_SET as the
\* current value; with callbacks enabled and not deferring the callbacks of
\* the key are called once with (default value, removed value); afterwards
\* the key is still contained, reads as the default value, keeps its
\* callbacks and is out of the variables, so that a second delete raises.
OriginalC7 ==
    [][\A s \in Stores, k \in Keys :
          (/\ last'.op = "delete" /\ last'.s = s /\ last'.k = k
           /\ variables[s][k] # NOT_SET
           /\ InDefaults(variables, defaults, s, k)) =>
              LET removed == variables[s][k]
                  default == DefaultsGetItem(variables, defaults, s, k)
                  observers == change_callbacks[s][k]
              IN /\ result' = "none"
                 /\ \A i \in 1..Len(log') : log'[i].cur # NOT_SET
                 /\ (callbacks_enabled[s] /\ ~defer_callbacks[s] /\ observers # {}) =>
                       LogOf(log', s) = <<Invocation(s, k, observers, default, removed, default)>>
                 /\ Contains(variables', defaults', s, k)
                 /\ GetItem(variables', defaults', s, k) = default
                 /\ change_callbacks'[s][k] = observers
                 /\ variables'[s][k] = NOT_SET
      ]_vars

\* C8: a delete of a key that is in the variables and nowhere in the defaults
\* returns normally; with callbacks enabled the callbacks of the key are
\* called once with (NOT_SET, removed value), or, when the store is
\* deferring, put in its batch with NOT_SET as the current value; afterwards
\* the key is not contained and has no callback registered on the store.
ClaimC8 ==
    [][\A s \in Stores, k \in Keys :
          (/\ last'.op = "delete" /\ last'.s = s /\ last'.k = k
           /\ variables[s][k] # NOT_SET
           /\ ~InDefaults(variables, defaults, s, k)) =>
              LET removed == variables[s][k]
                  observers == change_callbacks[s][k]
              IN /\ result' = "none"
                 /\ (callbacks_enabled[s] /\ ~defer_callbacks[s]) =>
                       LogOf(log', s) =
                           IF observers = {} THEN <<>>
                           ELSE <<Invocation(s, k, observers, NOT_SET, removed, NOT_SET)>>
                 /\ (callbacks_enabled[s] /\ defer_callbacks[s] /\ observers # {}) =>
                       /\ log' = <<>>
                       /\ \E i \in 1..Len(deferred'[s]) :
                             /\ deferred'[s][i].key = k
                             /\ deferred'[s][i].cur = NOT_SET
                             /\ observers \subseteq deferred'[s][i].cbs
                 /\ ~Contains(variables', defaults', s, k)
                 /\ change_callbacks'[s][k] = {}
      ]_vars

\* a delete has just called the callback of a key with (NOT_SET, removed
\* value); the key is gone and so is its callback
WitnessC8 ==
    /\ last.op = "delete"
    /\ result = "none"
    /\ Len(log) = 1
    /\ log[1].cbs = {"f"} /\ log[1].cur = NOT_SET /\ log[1].prev \in Values
    /\ log[1].s = last.s /\ log[1].k = last.k
    /\ ~Contains(variables, defaults, last.s, last.k)
    /\ change_callbacks[last.s][last.k] = {}

\* C2 as stated: while store c has store p as its defaults and holds key k
\* in its own variables, a set or delete of k, an update or a clear on p
\* calls no callback of c for k and leaves the variables of c and the value
\* c reads for k as they were.
OriginalC2 ==
    [][\A p, c \in Stores, k \in Keys :
          (/\ last'.op \in {"set", "delete", "update", "clear"}
           /\ last'.s = p
           /\ last'.op \in {"set", "delete"} => last'.k = k
           /\ defaults[c] = ConfigRef(p)
           /\ variables[c][k] # NOT_SET) =>
              /\ \A i \in 1..Len(log') : ~(log'[i].s = c /\ log'[i].k = k)
              /\ variables'[c] = variables[c]
              /\ GetItem(variables', defaults', c, k) = variables[c][k]
      ]_vars

\* store d reaches store a by following defaults, and no store from d up
\* to, but excluding, a holds key k in its own variables
RECURSIVE Unshadowed(_, _, _, _, _)
Unshadowed(V, D, d, a, k) ==
    IF d = a THEN TRUE
    ELSE /\ V[d][k] = NOT_SET
         /\ IsConfig(D[d])
         /\ Unshadowed(V, D, D[d].ref, a, k)

\* C3 as stated: with callbacks enabled and nothing deferred, a set or a
\* delete of key k on store a that changes the value of k from previous to
\* current calls the callbacks of k on another store d, once and with
\* (current, previous), exactly when d reaches a through defaults with no
\* store below a holding k; it calls no callback of any other store.
OriginalC3 ==
    [][\A a \in Stores, k \in Keys :
          (/\ last'.op \in {"set", "delete"} /\ last'.s = a /\ last'.k = k
           /\ last'.op = "delete" => variables[a][k] # NOT_SET
           /\ \A x \in Stores : callbacks_enabled[x] /\ ~defer_callbacks[x]) =>
              LET previous == Effective(variables, defaults, a, k)
                  current == Effective(variables', defaults', a, k)
              IN \A d \in Stores \ {a} :
                    LogOf(log', d) =
                        IF /\ current # previous
                           /\ change_callbacks[d][k] # {}
                           /\ Unshadowed(variables, defaults, d, a, k)
                        THEN <<Invocation(d, k, change_callbacks[d][k],
                                          current, previous, current)>>
                        ELSE <<>>
      ]_vars

\* C9: with callbacks enabled, not deferring and nothing pending, replacing
\* the plain dict Old that is the defaults of a store by the plain dict New
\* calls, for each key that is not in the variables, has callbacks and has
\* Old[k] # New[k], the callbacks once with (New[k], Old[k]), NOT_SET
\* standing for a key the dict lacks, and calls nothing else; every call
\* reads New[k] from the store, so all come after the replacement, and the
\* store ends not deferring with an empty batch.
ClaimC9 ==
    [][\A s \in Stores :
          (/\ last'.op = "defaults" /\ last'.s = s
           /\ ~IsConfig(defaults[s]) /\ ~IsConfig(defaults'[s])
           /\ callbacks_enabled[s] /\ ~defer_callbacks[s] /\ deferred[s] = <<>>) =>
              LET Old == defaults[s].map
                  New == defaults'[s].map
                  Fires(k) == /\ variables[s][k] = NOT_SET
                              /\ Old[k] # New[k]
                              /\ change_callbacks[s][k] # {}
              IN /\ result' = "none"
                 /\ \A k \in Keys :
                       SelectSeq(log', LAMBDA e : e.s = s /\ e.k = k) =
                           IF Fires(k)
                           THEN <<Invocation(s, k, change_callbacks[s][k],
                                             New[k], Old[k], New[k])>>
                           ELSE <<>>
                 /\ Len(log') = Cardinality({k \in Keys : Fires(k)})
                 /\ deferred'[s] = <<>>
                 /\ ~defer_callbacks'[s]
                 /\ variables' = variables
                 /\ change_callbacks' = change_callbacks
      ]_vars

\* a reassignment of the defaults has just called the callbacks of both
\* keys: one key changed its default, the other got one or lost one
WitnessC9 ==
    /\ last.op = "defaults"
    /\ Len(log) = 2
    /\ log[1].k # log[2].k
    /\ \E i, j \in 1..2 :
          /\ NOT_SET \notin {log[i].cur, log[i].prev}
          /\ NOT_SET \in {log[j].cur, log[j].prev}
    /\ variables[last.s] = EmptyMap

\* C10 as stated: while a store is inside a block of deferred callbacks no
\* step calls a callback, and leaving an inner block calls none; leaving
\* the outermost block calls the callbacks a key had when the block was
\* entered, once, with (value now, value at entry), if the two values
\* differ, and at most once if they are the same.
OriginalC10 ==
    [][\A s \in Stores :
          (scopes[s] # <<>> /\ callbacks_enabled[s]) =>
              IF last'.op = "exit" /\ last'.s = s /\ scopes'[s] = <<>> /\ ~scopes[s][1]
              THEN \A k \in Keys :
                      LET before == entered[s].value[k]
                          after == Effective(variables', defaults', s, k)
                          observers == entered[s].cbs[k]
                          calls == SelectSeq(log', LAMBDA e : e.s = s /\ e.k = k)
                      IN observers # {} =>
                            IF after # before
                            THEN calls = <<Invocation(s, k, observers, after, before, after)>>
                            ELSE Len(calls) <= 1
              ELSE LogOf(log', s) = <<>>
      ]_vars

\* the invocations of the last step that called callbacks of store d for key k
CallsOf(L, d, k) == SelectSeq(L, LAMBDA e : e.s = d /\ e.k = k)

\* store d is store a or reaches it by following defaults
RECURSIVE Reaches(_, _, _)
Reaches(D, d, a) == d = a \/ (IsConfig(D[d]) /\ Reaches(D, D[d].ref, a))

\* C11 as stated: an update or a clear on a store calls the callbacks of
\* that store, and of a store that has it in its chain of defaults, at most
\* once for a key; it calls none for a key whose value in the store is the
\* same after the call as before it; the callbacks are called when the keys
\* of the call have been applied, so that they read the final value from
\* the store; and the file is written at most once.
OriginalC11 ==
    [][\A p \in Stores :
          (last'.op \in {"update", "clear"} /\ last'.s = p) =>
              /\ \A d \in Stores, k \in Keys :
                    LET calls == CallsOf(log', d, k)
                        after == Effective(variables', defaults', d, k)
                    IN Reaches(defaults, d, p) =>
                          /\ Len(calls) <= 1
                          /\ after = Effective(variables, defaults, d, k) => calls = <<>>
                          /\ \A i \in 1..Len(calls) : calls[i].seen = after
              /\ saved' <= 1
      ]_vars

\* C12: a load() that returns normally leaves in the variables exactly the
\* mapping the file holds, which for a file written by save() is the
\* variables held at that save; it leaves the defaults and the file as they
\* were and saves nothing; and, with callbacks enabled and not deferring,
\* it calls the callbacks of each key whose value in the store changed,
\* once, with (value after, value before), as the deletes and sets that
\* make the same change do, and calls no other; with callbacks disabled or
\* deferring it calls none, as those deletes and sets do.
ClaimC12 ==
    [][\A s \in Stores :
          (last'.op = "load" /\ last'.s = s /\ result' = "none") =>
              /\ file[s].state = "json"
              /\ variables'[s] = JsonLoad(file[s].text)
              /\ \A map \in Maps : JsonLoad(JsonDump(map)) = map
              /\ \A t \in Stores \ {s} : variables'[t] = variables[t]
              /\ defaults' = defaults
              /\ file' = file
              /\ saved' = 0
              /\ is_loaded'[s]
              /\ (callbacks_enabled[s] /\ ~defer_callbacks[s]) =>
                    \A k \in Keys :
                       LET before == Effective(variables, defaults, s, k)
                           after == Effective(variables', defaults', s, k)
                           observers == change_callbacks[s][k]
                       IN CallsOf(log', s, k) =
                             IF before # after /\ observers # {}
                             THEN <<Invocation(s, k, observers, after, before, after)>>
                             ELSE <<>>
              /\ (~callbacks_enabled[s] \/ defer_callbacks[s]) => log' = <<>>
      ]_vars

\* a load has just removed one key and changed the other, calling the
\* callbacks of both; the variables are what the file holds
WitnessC12 ==
    /\ last.op = "load"
    /\ result = "none"
    /\ Len(log) = 2
    /\ \E i, j \in 1..2 :
          /\ log[i].cur = NOT_SET /\ log[i].prev # NOT_SET
          /\ NOT_SET \notin {log[j].cur, log[j].prev}
    /\ file[last.s] = JsonFile(JsonDump(variables[last.s]))
    /\ Cardinality(KeysOf(variables[last.s])) = 1

\* C13: a load() of a store whose file is missing raises FileNotFoundError
\* and one whose file is not JSON raises JSONDecodeError; neither returns
\* normally, and both leave the variables, the callbacks and the batches
\* as they were, call no callback and write nothing.  The load at
\* construction is the same call on a store with no variables.
ClaimC13 ==
    [][\A s \in Stores :
          (last'.op = "load" /\ last'.s = s /\ file[s].state # "json") =>
              /\ result' = (IF file[s].state = "missing"
                            THEN "FileNotFoundError" ELSE "JSONDecodeError")
              /\ variables' = variables
              /\ defaults' = defaults
              /\ change_callbacks' = change_callbacks
              /\ deferred' = deferred
              /\ log' = <<>>
              /\ saved' = 0
              /\ file' = file
              /\ ~is_loaded'[s]
      ]_vars

\* a load of a file that is not JSON has just raised; the store still holds
\* its variables and the callback of the key
WitnessC13 ==
    /\ last.op = "load"
    /\ result = "JSONDecodeError"
    /\ file[last.s] = MalformedFile
    /\ variables[last.s] # EmptyMap
    /\ \E k \in Keys : change_callbacks[last.s][k] # {}

\* no modify event of the file of store s waits for delivery and its
\* autoloader expects none
Quiet(s) == events[s] = <<>> /\ ignore_count[s] = 0

\* C14: on a store with autosave and autoload on, callbacks enabled and not
\* deferring, no modify event outstanding and an ignore count of zero, a
\* set that changes the value calls the callbacks of the key once, writes
\* the file once and leaves one modify event and an ignore count of one;
\* the delivery of that event reloads nothing, calls nothing, leaves the
\* variables and the file alone and brings the store back to no event
\* outstanding and an ignore count of zero.  Hence N such sets, each
\* followed by the delivery, give N notifications and no reload.
ClaimC14 ==
    [][\A s \in Stores :
          /\ \A k \in Keys, v \in Values :
                (/\ last'.op = "set" /\ last'.s = s /\ last'.k = k /\ last'.v = v
                 /\ autosave[s] /\ autoload[s] /\ watching[s] /\ Quiet(s)
                 /\ callbacks_enabled[s] /\ ~defer_callbacks[s]
                 /\ v # Effective(variables, defaults, s, k)) =>
                    /\ result' = "none"
                    /\ saved' = 1
                    /\ file'[s] = JsonFile(JsonDump(variables'[s]))
                    /\ events'[s] = <<"self">>
                    /\ ignore_count'[s] = 1
                    /\ log' = IF change_callbacks[s][k] = {} THEN <<>>
                              ELSE <<Invocation(s, k, change_callbacks[s][k], v,
                                                Effective(variables, defaults, s, k), v)>>
          /\ (/\ last'.op = "modified" /\ last'.s = s
              /\ events[s] = <<"self">> /\ ignore_count[s] = 1) =>
                    /\ ~last'.loaded
                    /\ result' = "none"
                    /\ log' = <<>>
                    /\ saved' = 0
                    /\ variables' = variables
                    /\ file' = file
                    /\ events'[s] = <<>>
                    /\ ignore_count'[s] = 0
      ]_vars

\* the modify event of the store's own save has just been delivered and
\* dropped: the store, with autosave and autoload on and a callback on the
\* key, holds what it saved and expects no further event
WitnessC14 ==
    /\ last.op = "modified"
    /\ last.cause = "self"
    /\ ~last.loaded
    /\ autosave[last.s] /\ autoload[last.s]
    /\ Quiet(last.s)
    /\ variables[last.s] # EmptyMap
    /\ file[last.s] = JsonFile(JsonDump(variables[last.s]))
    /\ \E k \in Keys : change_callbacks[last.s][k] # {}

\* C15 as stated: with autoload on and no modify event of the store's own
\* saves outstanding, once the watcher has processed the event of a
\* modification made by another program, the variables are what the file
\* holds and the callbacks of every key whose value changed have been called
\* (on a store with callbacks enabled and not deferring).
OriginalC15 ==
    [][\A s \in Stores :
          (/\ last'.op = "modified" /\ last'.s = s /\ last'.cause = "external"
           /\ autoload[s] /\ ignore_count[s] = 0
           /\ \A i \in 1..Len(events[s]) : events[s][i] # "self"
           /\ file[s].state = "json"
           /\ callbacks_enabled[s] /\ ~defer_callbacks[s]) =>
              /\ variables'[s] = JsonLoad(file[s].text)
              /\ \A k \in Keys :
                    LET before == Effective(variables, defaults, s, k)
                        after == Effective(variables', defaults', s, k)
                        observers == change_callbacks[s][k]
                    IN (before # after /\ observers # {}) =>
                          CallsOf(log', s, k) =
                             <<Invocation(s, k, observers, after, before, after)>>
      ]_vars

\* C16 as stated: with autosave on, after a set, delete, update or clear
\* that returns without raising, the file holds the store's variables; and
\* turning autosave on saves at once.
OriginalC16 ==
    [][\A s \in Stores :
          /\ (/\ last'.op \in {"set", "delete", "update", "clear"} /\ last'.s = s
              /\ autosave[s] /\ result' = "none") =>
                    file'[s] = JsonFile(JsonDump(variables'[s]))
          /\ (last'.op = "autosave" /\ last'.s = s /\ autosave'[s]) =>
                    /\ saved' = 1
                    /\ file'[s] = JsonFile(JsonDump(variables'[s]))
      ]_vars

\* C17 as stated: whatever autosave was before the block, the exit of a
\* saved() block writes the file exactly when the policy is exit, or
\* exit_no_errors and the body did not raise.
OriginalC17 ==
    [][\A s \in Stores :
          (last'.op = "exit_saved" /\ last'.s = s) =>
              /\ (saved' > 0) <=> ShouldSaveOnExit(last'.policy, last'.raised)
              /\ (saved' = 0) => file' = file
      ]_vars

\* the policy of the innermost saved() block of store s
InnerPolicy(s) == save_scopes[s][Len(save_scopes[s])].save_policy

\* C18 as stated: entering a saved() block leaves autosave on exactly when
\* the policy is immediate, whatever it was before; inside the block, under
\* immediate every set, delete, update or clear that changes the variables
\* writes them to the file in the same call, and under the other policies
\* none of these calls writes the file.
OriginalC18 ==
    [][\A s \in Stores :
          /\ (last'.op = "enter_saved" /\ last'.s = s) =>
                autosave'[s] = (last'.policy = "immediate")
          /\ (/\ last'.op \in {"set", "delete", "update", "clear"} /\ last'.s = s
              /\ save_scopes[s] # <<>>) =>
                /\ autosave[s] = (InnerPolicy(s) = "immediate")
                /\ (InnerPolicy(s) = "immediate" /\ variables'[s] # variables[s]) =>
                      /\ saved' = 1
                      /\ file'[s] = JsonFile(JsonDump(variables'[s]))
                /\ InnerPolicy(s) # "immediate" => (saved' = 0 /\ file' = file)
      ]_vars

ClaimC20 ==
    [][\A s \in Stores, k \in Keys :
          /\ (/\ last'.op = "add_callback" /\ last'.s = s /\ last'.k = k
              /\ "cb" \in DOMAIN last') =>
                /\ last'.cb \in change_callbacks[s][k]
                /\ change_callbacks' = change_callbacks
                /\ result' = "none"
                /\ log' = <<>>
                /\ deferred' = deferred
                /\ variables' = variables
          /\ (last'.op = "remove_callback" /\ last'.s = s /\ last'.k = k) =>
                IF last'.cb \in change_callbacks[s][k]
                THEN /\ result' = "none"
                     /\ change_callbacks' =
                           [change_callbacks EXCEPT ![s][k] = @ \ {last'.cb}]
                ELSE /\ result' = "KeyError"
                     /\ change_callbacks' = change_callbacks
          /\ (/\ last'.op = "set" /\ last'.s = s /\ last'.k = k
              /\ callbacks_enabled[s] /\ ~defer_callbacks[s]
              /\ last'.v # Effective(variables, defaults, s, k)) =>
                log' = IF change_callbacks[s][k] = {} THEN <<>>
                       ELSE <<Invocation(s, k, change_callbacks[s][k], last'.v,
                                         Effective(variables, defaults, s, k), last'.v)>>
      ]_vars

\* a callback has just been added again to a key that holds a value and
\* has both callbacks: the call returned and the key still has the two
WitnessC20 ==
    /\ last.op = "add_callback"
    /\ "cb" \in DOMAIN last
    /\ result = "none"
    /\ change_callbacks[last.s][last.k] = Obs
    /\ variables[last.s][last.k] # NOT_SET

\* C21: no step calls a callback whose owner has been destroyed, whether
\* the weak reference callbacks have purged it from the sets or not: a set
\* that changes the key, on a store with callbacks enabled and not
\* deferring, returns normally and calls the live callbacks of the key
\* only, and the exit of the outermost callbacks_deferred() block returns
\* normally and calls, for each key of the batch, the callbacks of the
\* batch that are still alive; once finalized, a dead callback is in no
\* registry and no batch.
ClaimC21 ==
    [][/\ \A i \in 1..Len(log') : log'[i].cbs # {} /\ log'[i].cbs \subseteq alive
       /\ \A s \in Stores :
             /\ \A k \in Keys :
                  (/\ last'.op = "set" /\ last'.s = s /\ last'.k = k
                   /\ callbacks_enabled[s] /\ ~defer_callbacks[s]
                   /\ last'.v # Effective(variables, defaults, s, k)) =>
                      /\ result' = "none"
                      /\ log' = IF change_callbacks[s][k] \cap alive = {} THEN <<>>
                                ELSE <<Invocation(s, k, change_callbacks[s][k] \cap alive,
                                                  last'.v,
                                                  Effective(variables, defaults, s, k),
                                                  last'.v)>>
             /\ (/\ last'.op = "exit" /\ last'.s = s
                 /\ scopes[s] = <<FALSE>> /\ child_configs[s] = <<>>) =>
                      /\ result' = "none"
                      /\ deferred'[s] = <<>>
                      /\ \A i \in 1..Len(deferred[s]) :
                            LET e == deferred[s][i]
                                calls == CallsOf(log', s, e.key)
                            IN IF e.cbs \cap alive = {} THEN calls = <<>>
                               ELSE /\ Len(calls) = 1
                                    /\ calls[1].cbs = e.cbs \cap alive
       /\ (last'.op \in {"destroy", "finalize"}) =>
             /\ log' = <<>>
             /\ variables' = variables
             /\ LET gone == IF last'.op = "finalize" THEN Obs \ alive'
                            ELSE IF last'.finalized THEN {last'.cb} ELSE {}
                IN /\ \A s \in Stores, k \in Keys : change_callbacks'[s][k] \cap gone = {}
                   /\ \A s \in Stores : \A i \in 1..Len(deferred'[s]) :
                         deferred'[s][i].cbs \cap gone = {}
      ]_vars

\* a set has just changed a key whose registry holds a live callback and
\* one whose owner is destroyed and not yet purged: the call returned and
\* only the live one was called
WitnessC21 ==
    /\ last.op = "set"
    /\ result = "none"
    /\ Cardinality(alive \cap Obs) = 1
    /\ change_callbacks[last.s][last.k] = Obs
    /\ Len(log) = 1
    /\ log[1].cbs = alive \cap Obs

\* thread t is inside an operation of store s that is one of ops
Inside(t, s, ops) ==
    \E i \in 1..Len(stacks[t]) : stacks[t][i].s = s /\ stacks[t][i].op \in ops

\* C22 as stated: no two threads are inside operations that change the
\* same store at the same time, and no thread reads a store while another
\* thread is inside an operation that changes it.
OriginalC22 ==
    \A s \in Stores, t \in Threads, u \in Threads :
        (t # u /\ Inside(t, s, Mutating)) => ~Inside(u, s, Mutating \cup Reading)

\* thread t waits for a lock that thread u holds
WaitsFor(t, u) ==
    /\ pending[t] # NoCall
    /\ LockOf(pending[t].s, pending[t].op) \in LockIds
    /\ locks[LockOf(pending[t].s, pending[t].op)].owner = u

Reentrant == {"get", "set", "delete", "save"}

\* C23 as stated: a call back into store S (get, set, delete, save) made on
\* the thread that is inside a mutation of S never deadlocks: the thread is
\* never left waiting for a lock whose holder waits for a lock of the thread
OriginalC23 ==
    \A t \in Threads, u \in Threads :
        (/\ t # u
         /\ pending[t] # NoCall
         /\ pending[t].op \in Reentrant
         /\ Inside(t, pending[t].s, Mutating))
        => ~(WaitsFor(t, u) /\ WaitsFor(u, t))

\* C24: a set, update, delete or clear on store S, whether it returns or
\* raises, leaves the defaults of every store (S included) and the
\* variables of every other store exactly as they were; only the variables
\* of S may have changed.
ClaimC24 ==
    [][\A s \in Stores :
          (last'.op \in {"set", "update", "delete", "clear"} /\ last'.s = s)
          => /\ defaults' = defaults
             /\ \A t \in Stores \ {s} : variables'[t] = variables[t]]_vars

\* store 2, whose defaults is store 1, has just deleted a key that it held
\* and that store 1 holds too, and store 1 has a plain dict with keys as its
\* defaults
WitnessC24 ==
    /\ last.op = "delete"
    /\ last.s = 2
    /\ result # "KeyError"
    /\ IsConfig(defaults[2])
    /\ variables[2][last.k] = NOT_SET
    /\ variables[1][last.k] # NOT_SET
    /\ ~IsConfig(defaults[1])
    /\ defaults[1].map[last.k] # NOT_SET

\* how many times store s stands in the child list of store p
Occurrences(p, s) ==
    Cardinality({i \in 1..Len(child_configs[p]) : child_configs[p][i] = s})

\* C25 as stated: in every reachable state a store S stands in the child
\* list of store P exactly once if the defaults of S is P, and not at all
\* otherwise.
OriginalC25 ==
    \A s \in Stores, p \in Stores :
        Occurrences(p, s) = IF defaults[s] = ConfigRef(p) THEN 1 ELSE 0

\* C26 as stated: when the watcher's reload finds the backing file missing
\* or malformed, no FileNotFoundError or JSONDecodeError leaves the reload;
\* with the backup flag set a backup file holding the variables as they
\* were is written; with the clear flag set the variables end empty and
\* the callbacks are called as clear() calls them.
OriginalC26 ==
    [][\A s \in Stores :
          (/\ last'.op = "modified" /\ last'.s = s /\ last'.loaded
           /\ file[s].state \in {"missing", "malformed"})
          => /\ result' \notin {"FileNotFoundError", "JSONDecodeError"}
             /\ backup_on_error[s] =>
                   backups'[s] = Append(backups[s], JsonFile(JsonDump(variables[s])))
             /\ clear_on_error[s] =>
                   /\ variables'[s] = EmptyMap
                   /\ \E o \in Orders : log' = Clear(Machine, s, o).L]_vars

\* C27 as stated: when the watcher gets a move event whose source is the
\* store's backing file, the filepath of the store becomes the destination
\* of the move, and if the moved file holds what the variables hold no
\* callback is called.
OriginalC27 ==
    [][\A s \in Stores :
          (/\ last'.op = "moved" /\ last'.s = s
           /\ last'.event.src_path.name = filepath[s].name)
          => /\ filepath'[s] = Path(last'.event.dest_path.name)
             /\ (elsewhere[s] = JsonFile(JsonDump(variables[s])) => log' = <<>>)]_vars

ClaimC30 ==
    [][\A s \in Stores :
          (last'.op = "set" /\ last'.s = s)
          => LET k == last'.k
                 v == last'.v
                 requires_save == variables[s][k] = NOT_SET \/ variables[s][k] # v
             IN /\ SetValue(Machine, s, k, v).R = requires_save
                /\ result' = "none"
                /\ variables'[s][k] = v
                /\ IF requires_save /\ autosave[s]
                   THEN saved' = 1 /\ file'[s] = JsonFile(JsonDump(variables'[s]))
                   ELSE saved' = 0 /\ file' = file]_vars

\* with autosave on, a key that the store only inherited has just been set
\* to the value its defaults give: no callback was called and the file was
\* written once and now holds the key
WitnessC30 ==
    /\ last.op = "set"
    /\ autosave[last.s]
    /\ ~IsConfig(defaults[last.s])
    /\ defaults[last.s].map[last.k] = last.v
    /\ variables[last.s][last.k] = last.v
    /\ change_callbacks[last.s][last.k] # {}
    /\ callbacks_enabled[last.s] /\ ~defer_callbacks[last.s]
    /\ log = <<>>
    /\ saved = 1
    /\ JsonLoad(file[last.s].text)[last.k] = last.v

\* a store and a child of it, with callbacks that return and callbacks that
\* raise, each alone on its key, and blocks of deferred callbacks of the
\* parent
NextRaise ==
    \/ \E s \in {1, 2}, k \in OneKey, v \in Values : Set(s, k, v)
    \/ \E s \in {1, 2}, k \in OneKey : variables[s][k] # NOT_SET /\ Delete(s, k)
    \/ \E o \in Orders : ~IsConfig(defaults[2]) /\ AssignDefaultsConfig(2, 1, o)
    \/ \E s \in {1, 2}, k \in OneKey, c \in {"f"} \cup Raisers :
          /\ change_callbacks[s][k] = {}
          /\ scopes[1] = <<>>
          /\ AddCallback(s, k, c)
    \/ EnterDeferred(1)
    \/ ExitDeferred(1)

SpecRaise == Init /\ [][NextRaise]_vars

\* the calls that a flush of the batch of store s makes when no callback
\* raises, in order
Flushed(s) ==
    SelectSeq([i \in 1..Len(deferred[s]) |->
                  [s |-> s, k |-> deferred[s][i].key,
                   cbs |-> deferred[s][i].cbs \cap alive,
                   cur |-> deferred[s][i].cur, prev |-> deferred[s][i].prev]],
              LAMBDA e : e.cbs # {})

\* the same for the flush that ends a block of store s: its own batch, then
\* the batches of the stores of its child list, each followed by its own
RECURSIVE FlushOrder(_)
RECURSIVE FlushChildren(_, _)
FlushOrder(s) == Flushed(s) \o FlushChildren(s, 1)

FlushChildren(s, i) ==
    IF i > Len(child_configs[s]) THEN <<>>
    ELSE FlushOrder(child_configs[s][i]) \o FlushChildren(s, i + 1)

\* C31: when the outermost callbacks_deferred block of a store ends and a
\* callback of a batch raises during the flush, the exception leaves the
\* call that ended the block, the calls of the flush are those up to the
\* callback that raised (the batch entries after it are not called), the
\* batches of the store and of every store below it are empty afterwards,
\* and the store is not deferring any more.
ClaimC31 ==
    [][\A s \in Stores :
          LET order == FlushOrder(s)
              stops == {i \in 1..Len(order) : order[i].cbs \cap Raisers # {}}
          IN (/\ last'.op = "exit" /\ last'.s = s
              /\ scopes[s] # <<>> /\ ~scopes[s][Len(scopes[s])]
              /\ stops # {})
             => LET n == CHOOSE i \in stops : \A j \in stops : i <= j
                IN /\ result' = "CallbackError"
                   /\ Len(log') = n
                   /\ \A i \in 1..n :
                         /\ log'[i].s = order[i].s /\ log'[i].k = order[i].k
                         /\ log'[i].cbs = order[i].cbs
                         /\ log'[i].cur = order[i].cur
                         /\ log'[i].prev = order[i].prev
                   /\ \A d \in Stores : Reaches(defaults, d, s) => deferred'[d] = <<>>
                   /\ ~defer_callbacks'[s]]_vars

\* a block of store 1 has just ended in the exception of a callback called
\* of its batch, with the entry in the batch of its child left uncalled
WitnessC31 ==
    /\ last.op = "exit" /\ last.s = 1
    /\ result = "CallbackError"
    /\ Len(log) = 1 /\ log[1].s = 1 /\ log[1].cbs \subseteq Raisers
    /\ IsConfig(defaults[2])
    /\ change_callbacks[1][1] # {}
    /\ change_callbacks[2][1] = {"f"}
    /\ variables[2][1] = NOT_SET
    /\ \A d \in {1, 2} : deferred[d] = <<>>
    /\ ~defer_callbacks[1]

\* C32 as stated: a delete of a key whose value in the variables equals the
\* value that the defaults hold for it returns without raising, removes the
\* key from the variables, calls no callback, and leaves the store giving
\* the default for the key.
OriginalC32 ==
    [][\A s \in Stores, k \in Keys :
          (/\ last'.op = "delete" /\ last'.s = s /\ last'.k = k
           /\ variables[s][k] # NOT_SET
           /\ InDefaults(variables, defaults, s, k)
           /\ variables[s][k] = DefaultsGetItem(variables, defaults, s, k)) =>
              /\ result' = "none"
              /\ variables'[s][k] = NOT_SET
              /\ log' = <<>>
              /\ GetItem(variables', defaults', s, k)
                    = DefaultsGetItem(variables, defaults, s, k)
      ]_vars

\* C33 as stated: no callback is ever called with a current value equal to
\* the previous value, neither at once nor by the flush of a batch.
OriginalC33 == \A i \in 1..Len(log) : log[i].cur # log[i].prev

\* the end of a `with config.callbacks_deferred():` block whose body raised:
\* the exception is thrown into the generator at its yield, which has no
\* try statement around it, so nothing after the yield is executed
AbortDeferred(s) ==
    /\ scopes[s] # <<>>
    /\ scopes' = [scopes EXCEPT ![s] = SubSeq(@, 1, Len(@) - 1)]
    /\ Commit(DeferredExit([Machine EXCEPT !.X = "BodyError"], s, scopes[s][Len(scopes[s])]),
              [op |-> "abort", s |-> s])
    /\ UNCHANGED <<entered, save_scopes>>

\* a store with a callback and blocks of deferred callbacks whose bodies
\* return or raise
NextAbort ==
    \/ \E s \in OneStore, k \in Keys, v \in Values : Set(s, k, v)
    \/ \E s \in OneStore, k \in Keys : variables[s][k] # NOT_SET /\ Delete(s, k)
    \/ \E s \in OneStore, k \in OneKey : AddCallback(s, k, "f")
    \/ \E s \in OneStore : EnterDeferred(s)
    \/ \E s \in OneStore : ExitDeferred(s)
    \/ \E s \in OneStore : AbortDeferred(s)

SpecAbort == Init /\ [][NextAbort]_vars

\* C34 as stated: when the last open callbacks_deferred block of a store has
\* ended, its body having returned or raised, the store is not deferring and
\* its batch is empty.
OriginalC34 ==
    [][\A s \in Stores :
          (last'.op \in {"exit", "abort"} /\ last'.s = s /\ scopes'[s] = <<>>) =>
              ~defer_callbacks'[s] /\ deferred'[s] = <<>>
      ]_vars

\* C35 as stated: the ignore count of a store is never negative, and it is
\* zero whenever no modify event caused by a save of the store itself is
\* waiting to be delivered to the watcher (so that the next modification
\* made by another program is reloaded).
OriginalC35 ==
    \A s \in Stores :
       /\ ignore_count[s] >= 0
       /\ (\A i \in 1..Len(events[s]) : events[s][i] # "self") => ignore_count[s] = 0

\* C36 as stated: a delete that raises KeyError leaves the variables, the
\* defaults and the callbacks registered for every key of the store as
\* they were before the call.
OriginalC36 ==
    [][\A s \in Stores :
          (last'.op = "delete" /\ last'.s = s /\ result' = "KeyError") =>
              /\ variables' = variables
              /\ defaults' = defaults
              /\ change_callbacks' = change_callbacks
      ]_vars

\* C37 as stated: whenever a callback of a store for a key is called with
\* (current, previous), the value the store gives for the key at that
\* moment is current (the key is not contained when current is NOT_SET),
\* whether the call is made at once, by a flush, or for a change made on a
\* store further up the chain of defaults.
OriginalC37 == \A i \in 1..Len(log) : log[i].seen = log[i].cur

\* C38 as stated: the end of a callbacks_deferred block of a store neither
\* flushes nor clears the batch of a child of it that has a block of its
\* own open: the child's callbacks are not called and its batch is left as
\* it is until the child's block ends.
OriginalC38 ==
    [][\A p \in Stores, d \in Stores :
          (/\ last'.op = "exit" /\ last'.s = p
           /\ IsConfig(defaults[d]) /\ defaults[d].ref = p
           /\ scopes[d] # <<>>) =>
              /\ LogOf(log', d) = <<>>
              /\ deferred'[d] = deferred[d]
      ]_vars

\* a chain of three stores, each with a callback and with callbacks that
\* are switched off and on
NextMute ==
    \/ \E s \in Stores, k \in OneKey, v \in Values : Set(s, k, v)
    \/ \E s \in Stores, k \in OneKey : variables[s][k] # NOT_SET /\ Delete(s, k)
    \/ \E o \in Orders : ~IsConfig(defaults[2]) /\ AssignDefaultsConfig(2, 1, o)
    \/ \E o \in Orders : ~IsConfig(defaults[3]) /\ AssignDefaultsConfig(3, 2, o)
    \/ \E s \in Stores, k \in OneKey : AddCallback(s, k, "f")
    \/ \E s \in Stores, e \in BOOLEAN : SetCallbacksEnabled(s, e)

SpecMute == Init /\ [][NextMute]_vars

\* C39: a set or a delete that changes the value of a key on a store whose
\* callbacks are disabled calls no callback of that store, and calls once,
\* with the same (new value, old value), the callbacks of every store
\* below it that has callbacks enabled and reaches it through stores that
\* do not hold the key themselves.
ClaimC39 ==
    [][\A p \in Stores, k \in Keys :
          LET before == Effective(variables, defaults, p, k)
              after == Effective(variables', defaults', p, k)
          IN (/\ last'.op \in {"set", "delete"} /\ last'.s = p /\ last'.k = k
              /\ ~callbacks_enabled[p]
              /\ result' = "none"
              /\ before # after) =>
                 /\ LogOf(log', p) = <<>>
                 /\ \A d \in Stores \ {p} :
                       (/\ Reaches(defaults, d, p)
                        /\ Unshadowed(variables, defaults, d, p, k)
                        /\ callbacks_enabled[d]
                        /\ change_callbacks[d][k] # {}) =>
                           LogOf(log', d) =
                              <<Invocation(d, k, change_callbacks[d][k], after, before, after)>>
      ]_vars

\* a set on store 1, whose callbacks are disabled, has just called the
\* callbacks of stores 2 and 3 below it and not its own
WitnessC39 ==
    /\ last.op = "set" /\ last.s = 1
    /\ ~callbacks_enabled[1] /\ change_callbacks[1][last.k] # {}
    /\ callbacks_enabled[2] /\ callbacks_enabled[3]
    /\ Len(log) = 2
    /\ log[1].s = 2 /\ log[2].s = 3
    /\ log[1].cur = last.v /\ log[2].cur = last.v

\* the calls of two threads on a store and on a child of it: a thread sets
\* a key of the parent, a callback of the child reads the child, a thread
\* reloads the child from its file (Configuration.load and Autoloader.load
\* take the same locks in the same order: the lock of the store, then the
\* lock of the variables setter)
CallsAcross ==
    {[op |-> "set", s |-> 1, n |-> 0, cb |-> FALSE, k |-> 1, v |-> v] : v \in Values}
    \cup {[op |-> "get", s |-> s, n |-> 0, cb |-> FALSE] : s \in {1, 2}}
    \cup {[op |-> "load", s |-> 2, n |-> 0, cb |-> FALSE]}
    \cup {[op |-> "variables", s |-> 2, n |-> 0, cb |-> FALSE, map |-> mp] :
             mp \in MapsOver(OneKey)}

Idle == stacks = [t \in Threads |-> <<>>] /\ pending = [t \in Threads |-> NoCall]

NextAcross ==
    \/ \E t \in Threads : \E c \in CallsAcross : Request(t, c)
    \/ \E t \in Threads, o \in Orders : Enter(t, o)
    \/ \E t \in Threads : Return(t)
    \/ \E o \in Orders : Idle /\ ~IsConfig(defaults[2]) /\ AssignDefaultsConfig(2, 1, o)
    \/ \E k \in OneKey : Idle /\ AddCallback(2, k, "f")
    \/ \E c \in MapsOver(OneKey) : Idle /\ ExternalEdit(2, c)

SpecAcross == Init /\ [][NextAcross]_vars

\* C40 as stated: two threads never wait for each other where each waits
\* for the lock of a store that the other holds, one inside a call of a
\* parent store and asking for its child, the other inside a call of the
\* child and asking for the parent.
OriginalC40 ==
    \A t \in Threads, u \in Threads :
        (/\ t # u
         /\ pending[t] # NoCall /\ pending[u] # NoCall
         /\ LockOf(pending[t].s, pending[t].op) = <<"instance", 2>>
         /\ LockOf(pending[u].s, pending[u].op) = <<"instance", 1>>
         /\ IsConfig(defaults[2]) /\ defaults[2].ref = 1)
        => ~(WaitsFor(t, u) /\ WaitsFor(u, t))

====
